---- MODULE Spec2Model ----
(***************************************************************************)
(* A model of the "seen" media indexer (markrai/seen): the per-root scan   *)
(* supervisor of src/api/handlers.rs, the catalog writer and the delete    *)
(* paths of src/db/writer.rs and src/db/query.rs, the commit counter of    *)
(* src/stats.rs, the skip-gate / hash / metadata stages of src/pipeline,   *)
(* and the GPU circuit breaker of src/utils/ffmpeg.rs.                     *)
(*                                                                         *)
(* The program's parts share no state beyond what each specification       *)
(* below names, so each part has its own specification over its own        *)
(* variables; the other variables are left unchanged by it:                *)
(*   SupSpec   the scan supervisor (request handlers and scan tasks)       *)
(*   CatSpec   the catalog writer, the delete paths and files_committed    *)
(*   CommitSpec the catalog writer alone                                    *)
(*   ScanSpec  discover -> skip-gate -> hash -> metadata -> writer, driven *)
(*             by two scans of one unchanged tree                          *)
(*   GpuSpec   the GPU circuit breaker                                     *)
(*   AdminSpec clear-all and reset-stats next to Add requests              *)
(*   ThumbSpec the thumbnail workers and the readers of derived paths      *)
(*   TranscodeSpec the video GET and its ffmpeg runs                        *)
(*   RemoveSpec removal of a root from a filled catalog                     *)
(*   PermSpec  the single and the bulk permanent delete                    *)
(*   RangeSpec serve_video_file with a Range header                        *)
(*   AlbumSpec albums and their membership rows                            *)
(*   FlushSpec the writer's flushing, with fairness for the writer         *)
(*   CancelSpec a scan task that is paused while it walks and emits         *)
(*   RequeueSpec removal of a root while items of it are in flight          *)
(*   ShareSpec the permanent delete over two rows with the same SHA-256    *)
(*   DrainSpec the writer and the thumbnail workers draining, no failures  *)
(*   GaugeSpec the depth gauges of the four pipeline channels              *)
(***************************************************************************)
EXTENDS Integers, Sequences, FiniteSets, TLC

VARIABLES
    \* ---- scan supervisor (src/lib.rs AppState, src/api/handlers.rs) ----
    scan_running,        \* AppState.scan_running: the global flag
    path_scan_running,   \* AppState.path_scan_running: root -> flag object (0: no entry)
    flag,                \* the Arc<AtomicBool> objects the map and the tasks share
    scan_paths,          \* the scan_paths table
    last_scan_start,     \* Stats.last_scan_start is Some
    req,                 \* the request handlers in flight, one per connection slot
    tasks,               \* the spawned scan tasks
    nreq,                \* requests received so far
    \* ---- GPU circuit breaker (src/utils/ffmpeg.rs) ----
    tracker,             \* GPU_FAILURE_TRACKER
    gpu_stats,           \* GPU_STATS: jobs_gpu, jobs_cpu
    cfg_enabled,         \* FFMPEG_CONFIG.enabled: an accelerator was detected
    worker,              \* the video jobs in flight, one per worker
    njobs,               \* video jobs started so far
    streak,              \* history: GPU failures recorded since the last GPU success
    trips,               \* history: times the breaker went from enabled to auto-disabled
    retried,             \* history: a periodic retry succeeded and re-enabled the GPU
    \* ---- catalog (src/db/writer.rs, src/db/query.rs, src/stats.rs) ----
    assets,              \* the assets table: rows [id, path, sha]
    fts,                 \* the rowids of fts_assets
    db_q,                \* the db-write channel
    buf,                 \* run_writer_impl: buf
    fts_rows,            \* run_writer_impl: fts_rows
    fts_pending,         \* rowids inserted by the open FTS transaction
    wpc,                 \* where the writer is
    wn,                  \* run_writer_impl: n, the size of the batch being committed
    files_committed,     \* Stats.files_committed
    thumb_q,             \* the thumbnail channel
    gauge_thumb,         \* QueueGauges.thumb
    del,                 \* the delete operations in flight (gone: history, the ids deleted)
    nitems,              \* items sent to the writer so far
    ndel,                \* delete operations started so far
    thumb_attempted,     \* history: paths the writer tried to enqueue a thumbnail for
    thumb_dropped,       \* history: paths whose last thumbnail job found the channel full
    \* ---- discover -> skip gate -> hash -> metadata (src/pipeline) ----
    tree,                \* the files under the scanned root, unchanged throughout
    scan_no,             \* the scan under way: 1, 2, or 3 once the second has drained
    to_emit,             \* files the current scan has yet to emit
    disc_q,              \* the discover channel
    hash_q,              \* the hash channel
    meta_q,              \* the metadata channel
    hash_jobs,           \* history: hash jobs sent so far
    snap,                \* history: the counters and the catalog when the second scan began
    \* ---- derived artifacts (src/pipeline/thumb.rs, src/api/handlers.rs) ----
    files,               \* the derived directory: path -> absent, empty, partial or complete
    tw,                  \* the thumbnail workers: where each is in its job
    nthumb,              \* thumbnail jobs received so far
    seen,                \* what the last read of a derived path returned
    vreq,                \* the video GET handlers in flight
    nvid,                \* video GETs received so far
    \* ---- the watchers' pause flags (AppState.path_watcher_paused) ----
    path_watcher_paused, \* root -> "none" (no entry), "false" or "true"
    \* ---- permanent delete (src/api/handlers.rs) ----
    orig,                \* the original files on disk: path -> absent or present
    pd,                  \* the permanent-delete handlers in flight
    npd,                 \* permanent-delete requests received so far
    \* ---- serve_video_file with a Range header ----
    rng,                 \* one video response: the header, the file size, the answer
    \* ---- albums (src/db/writer.rs, src/db/query.rs) ----
    albums,              \* the ids of the rows of table albums
    album_assets,        \* the rows <<album_id, asset_id>> of table album_assets
    alb,                 \* the album handlers in flight
    nalb,                \* album requests received so far
    \* ---- the db-write channel's senders (src/main.rs) ----
    db_closed,           \* every Sender<DbWriteItem> has been dropped
    \* ---- queue depth gauges (src/pipeline/mod.rs) ----
    gauges,              \* QueueGauges: discover, hash, metadata, db_write
    gq,                  \* items in each of the four channels
    gpc,                 \* position of scan_bfs, the forwarder, the workers, the writer
    gsent                \* items scan_bfs has sent

supVars == <<scan_running, path_scan_running, flag, scan_paths, last_scan_start, req, tasks, nreq>>

gpuVars == <<tracker, gpu_stats, cfg_enabled, worker, njobs, streak, trips, retried>>

catVars == <<assets, fts, db_q, buf, fts_rows, fts_pending, wpc, wn, files_committed,
             thumb_q, gauge_thumb, del, nitems, ndel, thumb_attempted, thumb_dropped>>

scanVars == <<tree, scan_no, to_emit, disc_q, hash_q, meta_q, hash_jobs, snap>>

derVars == <<files, tw, nthumb, seen, vreq, nvid>>

\* The groups added after the four above.
watchVars == <<path_watcher_paused>>

permVars == <<orig, pd, npd>>

rangeVars == <<rng>>

albumVars == <<albums, album_assets, alb, nalb>>

closeVars == <<db_closed>>

gaugeVars == <<gauges, gq, gpc, gsent>>

otherVars == <<derVars, watchVars, permVars, rangeVars, albumVars, closeVars, gaugeVars>>

vars == <<supVars, gpuVars, catVars, scanVars, otherVars>>

\* Steps of one part leave the other parts alone.
SupOnly == UNCHANGED <<gpuVars, catVars, scanVars, otherVars>>
SupWatch == UNCHANGED <<gpuVars, catVars, scanVars, derVars, permVars, rangeVars, albumVars, closeVars, gaugeVars>>
GpuOnly == UNCHANGED <<supVars, catVars, scanVars, otherVars>>
CatOnly == UNCHANGED <<supVars, gpuVars, scanVars, otherVars>>

(***************************************************************************)
(* Bounds of the model.                                                    *)
(***************************************************************************)
MaxRequests == 3    \* requests the clients send in one run

Roots == {"r1", "r2"}
DefaultRoot == "r1"          \* state.paths.root, scannable without being declared
Slots == {1, 2}              \* requests served concurrently
FlagIds == 1..MaxRequests     \* a request creates at most one flag object
TaskIds == 1..MaxRequests     \* and spawns at most one scan task

\* No video response and no album request is under way; no album exists.
RangeOff == rng = [pc |-> "off"]
IdleAlbum == [op |-> "none", pc |-> "idle", k |-> 0, x |-> 0, status |-> 0, out |-> {}]
AlbumOff ==
    /\ albums = {}
    /\ album_assets = {}
    /\ alb = [s \in Slots |-> IdleAlbum]
    /\ nalb = 0
\* The db-write channel has its senders.
ChannelOpen == db_closed = FALSE

\* The four channels of the scan pipeline that have a send-then-increment
\* producer, and the tasks at their ends. QueueGauges::default(): every gauge
\* starts at 0, the channels are empty, scan_bfs is about to send and every
\* consumer waits in recv.
GaugeStages == {"discover", "hash", "metadata", "db_write"}
GaugeTasks == {"bfs", "fwd", "hash", "meta", "writer"}
\* The channel each consumer receives from.
Consumes(t) ==
    CASE t = "fwd" -> "discover"
      [] t = "hash" -> "hash"
      [] t = "meta" -> "metadata"
      [] t = "writer" -> "db_write"

GaugeInit ==
    /\ gauges = [st \in GaugeStages |-> 0]
    /\ gq = [st \in GaugeStages |-> 0]
    /\ gpc = [t \in GaugeTasks |->
                IF t = "bfs" THEN [pc |-> "send", st |-> "discover"]
                ELSE [pc |-> "recv", st |-> Consumes(t)]]
    /\ gsent = 0

RestOff == RangeOff /\ AlbumOff /\ ChannelOpen /\ GaugeInit

(***************************************************************************)
(* The scan supervisor.                                                    *)
(***************************************************************************)
IdleReq(status) ==
    [op |-> "none", pc |-> "idle", root |-> DefaultRoot, f |-> 0,
     was |-> FALSE, any |-> FALSE, n |-> 0, cur |-> 0, status |-> status]

FreeTask == [pc |-> "free", root |-> DefaultRoot, f |-> 0, any |-> FALSE]

\* map.values().any(|flag| flag.load(..))
AnyActive(m, fl) == \E r \in Roots : m[r] # 0 /\ fl[m[r]]

\* The flag objects some owner still holds (an Arc is freed with its last clone).
Referenced(m, rq, tk) ==
    {m[r] : r \in Roots} \cup {rq[s].f : s \in Slots} \cup {tk[t].f : t \in TaskIds}

\* Freed objects carry no value.
Collect(fl, m, rq, tk) ==
    [i \in FlagIds |-> IF i \in Referenced(m, rq, tk) THEN fl[i] ELSE FALSE]

FreeFlags == FlagIds \ Referenced(path_scan_running, req, tasks)

Min(S) == CHOOSE x \in S : \A y \in S : x <= y

FreeTasks == {t \in TaskIds : tasks[t].pc = "free"}

SupInit ==
    /\ scan_running = FALSE
    /\ path_scan_running = [r \in Roots |-> 0]
    /\ flag = [i \in FlagIds |-> FALSE]
    /\ scan_paths = {}
    /\ last_scan_start = FALSE
    /\ req = [s \in Slots |-> IdleReq(0)]
    /\ tasks = [t \in TaskIds |-> FreeTask]
    /\ nreq = 0
    /\ path_watcher_paused = [r \in Roots |-> "none"]

\* A request arrives on an idle connection.
Arrive(s, op, r) ==
    /\ req[s].pc = "idle"
    /\ nreq < MaxRequests
    /\ nreq' = nreq + 1
    /\ req' = [req EXCEPT ![s] = [op |-> op, pc |-> "begin", root |-> r, f |-> 0,
                                  was |-> FALSE, any |-> FALSE, n |-> 0, cur |-> 0, status |-> 0]]
    /\ UNCHANGED <<scan_running, path_scan_running, flag, scan_paths, last_scan_start, tasks>>
    /\ SupOnly

\* The handler's response: the slot is idle again and its flag clone dropped.
Respond(rq, s, status) == [rq EXCEPT ![s] = IdleReq(status)]

\* add_scan_path, up to the first lock on the flag map: the root is declared
\* (INSERT OR IGNORE INTO scan_paths).
AddBegin(s) ==
    /\ req[s].op = "add" /\ req[s].pc = "begin"
    /\ scan_paths' = scan_paths \cup {req[s].root}
    /\ req' = [req EXCEPT ![s].pc = "was"]
    /\ UNCHANGED <<scan_running, path_scan_running, flag, last_scan_start, tasks, nreq>>
    /\ path_watcher_paused' = [path_watcher_paused EXCEPT ![req[s].root] = "false"]
    /\ SupWatch

\* scan_path: the root must be declared, except the default root.
ScanCheckExists(s) ==
    /\ req[s].op = "scan" /\ req[s].pc = "begin"
    /\ LET path_exists == req[s].root = DefaultRoot \/ req[s].root \in scan_paths IN
        req' = IF path_exists THEN [req EXCEPT ![s].pc = "was"] ELSE Respond(req, s, 404)
    /\ UNCHANGED <<scan_running, path_scan_running, flag, scan_paths, last_scan_start, tasks, nreq>>
    /\ SupOnly

\* let was_scanning = map.values().any(..), under the map's lock.
ReadWasScanning(s) ==
    /\ req[s].op \in {"add", "scan"} /\ req[s].pc = "was"
    /\ req' = [req EXCEPT ![s].was = AnyActive(path_scan_running, flag), ![s].pc = "get"]
    /\ UNCHANGED <<scan_running, path_scan_running, flag, scan_paths, last_scan_start, tasks, nreq>>
    /\ SupOnly

\* map.entry(path).or_insert_with(|| Arc::new(AtomicBool::new(false))).clone()
GetOrCreateFlag(s) ==
    /\ req[s].op \in {"add", "scan"} /\ req[s].pc = "get"
    /\ LET r == req[s].root IN
        IF path_scan_running[r] # 0
        THEN /\ req' = [req EXCEPT ![s].f = path_scan_running[r], ![s].pc = "swap"]
             /\ UNCHANGED <<path_scan_running, flag>>
        ELSE /\ FreeFlags # {}
             /\ LET i == Min(FreeFlags) IN
                 /\ path_scan_running' = [path_scan_running EXCEPT ![r] = i]
                 /\ flag' = [flag EXCEPT ![i] = FALSE]
                 /\ req' = [req EXCEPT ![s].f = i, ![s].pc = "swap"]
    /\ UNCHANGED <<scan_running, scan_paths, last_scan_start, tasks, nreq>>
    /\ SupOnly

\* AtomicBool::swap(true): the value before, and the flags after.
SwapTrue(fl, i) == [old |-> fl[i], flags |-> [fl EXCEPT ![i] = TRUE]]

\* if path_scan_running.swap(true) { return 409 "Path is already being scanned" }
SwapRunning(s) ==
    /\ req[s].op \in {"add", "scan"} /\ req[s].pc = "swap"
    /\ LET sw == SwapTrue(flag, req[s].f) IN
        IF sw.old
        THEN /\ req' = Respond(req, s, 409)
             /\ flag' = Collect(sw.flags, path_scan_running, req', tasks)
        ELSE /\ req' = [req EXCEPT ![s].pc = "start"]
             /\ flag' = sw.flags
    /\ UNCHANGED <<scan_running, path_scan_running, scan_paths, last_scan_start, tasks, nreq>>
    /\ SupOnly

\* if !was_scanning { stats.start_scan() }; scan_running.store(true);
\* tokio::spawn(scan task); 200 (add) or 202 (scan).
StartScan(s) ==
    /\ req[s].op \in {"add", "scan"} /\ req[s].pc = "start"
    /\ FreeTasks # {}
    /\ last_scan_start' = (IF req[s].was THEN last_scan_start ELSE TRUE)
    /\ scan_running' = TRUE
    /\ tasks' = [tasks EXCEPT ![Min(FreeTasks)] =
                    [pc |-> "scan", root |-> req[s].root, f |-> req[s].f, any |-> FALSE]]
    /\ req' = Respond(req, s, IF req[s].op = "add" THEN 200 ELSE 202)
    /\ UNCHANGED <<path_scan_running, flag, scan_paths, nreq>>
    /\ path_watcher_paused' = IF req[s].op = "scan"
                            THEN [path_watcher_paused EXCEPT ![req[s].root] = "false"]
                            ELSE path_watcher_paused
    /\ SupWatch

\* pause_path: if let Some(flag) = map.lock().get(path) { flag.store(false) },
\* then the root's watcher-paused flag (created if missing) is set to true.
PauseStore(s) ==
    /\ req[s].op = "pause" /\ req[s].pc = "begin"
    /\ LET i == path_scan_running[req[s].root] IN
        flag' = IF i # 0 THEN [flag EXCEPT ![i] = FALSE] ELSE flag
    /\ req' = [req EXCEPT ![s].pc = "any"]
    /\ UNCHANGED <<scan_running, path_scan_running, scan_paths, last_scan_start, tasks, nreq>>
    /\ path_watcher_paused' = [path_watcher_paused EXCEPT ![req[s].root] = "true"]
    /\ SupWatch

\* pause_path and remove_scan_path: let any_active = map.lock().values().any(..)
RecomputeAny(s) ==
    /\ req[s].op \in {"pause", "remove"} /\ req[s].pc = "any"
    /\ req' = [req EXCEPT ![s].any = AnyActive(path_scan_running, flag), ![s].pc = "global"]
    /\ UNCHANGED <<scan_running, path_scan_running, flag, scan_paths, last_scan_start, tasks, nreq>>
    /\ SupOnly

\* pause_path: state.scan_running.store(any_active); 200.
PauseGlobal(s) ==
    /\ req[s].op = "pause" /\ req[s].pc = "global"
    /\ scan_running' = req[s].any
    /\ req' = Respond(req, s, 200)
    /\ UNCHANGED <<path_scan_running, flag, scan_paths, last_scan_start, tasks, nreq>>
    /\ SupOnly

\* resume_path: the root's watcher-paused flag (created if missing) is set
\* to false, and nothing else; 200.
ResumePath(s) ==
    /\ req[s].op = "resume" /\ req[s].pc = "begin"
    /\ req' = Respond(req, s, 200)
    /\ UNCHANGED <<scan_running, path_scan_running, flag, scan_paths, last_scan_start, tasks, nreq>>
    /\ path_watcher_paused' = [path_watcher_paused EXCEPT ![req[s].root] = "false"]
    /\ SupWatch

\* remove_scan_path: the root's flag, if it has one, is cleared.
RemoveStop(s) ==
    /\ req[s].op = "remove" /\ req[s].pc = "begin"
    /\ LET i == path_scan_running[req[s].root] IN
        flag' = IF i # 0 THEN [flag EXCEPT ![i] = FALSE] ELSE flag
    /\ req' = [req EXCEPT ![s].pc = "unmap"]
    /\ UNCHANGED <<scan_running, path_scan_running, scan_paths, last_scan_start, tasks, nreq>>
    /\ path_watcher_paused' = IF path_watcher_paused[req[s].root] # "none"
                            THEN [path_watcher_paused EXCEPT ![req[s].root] = "true"]
                            ELSE path_watcher_paused
    /\ SupWatch

\* remove_scan_path: state.path_scan_running.lock().remove(path)
RemoveUnmap(s) ==
    /\ req[s].op = "remove" /\ req[s].pc = "unmap"
    /\ path_scan_running' = [path_scan_running EXCEPT ![req[s].root] = 0]
    /\ req' = [req EXCEPT ![s].pc = "any"]
    /\ flag' = Collect(flag, path_scan_running', req', tasks)
    /\ UNCHANGED <<scan_running, scan_paths, last_scan_start, tasks, nreq>>
    /\ path_watcher_paused' = [path_watcher_paused EXCEPT ![req[s].root] = "none"]
    /\ SupWatch

\* remove_scan_path: state.scan_running.store(any_active)
RemoveGlobal(s) ==
    /\ req[s].op = "remove" /\ req[s].pc = "global"
    /\ scan_running' = req[s].any
    /\ req' = [req EXCEPT ![s].pc = "db"]
    /\ UNCHANGED <<path_scan_running, flag, scan_paths, last_scan_start, tasks, nreq>>
    /\ SupOnly

\* path LIKE 'prefix/%' OR path = prefix
UnderPrefix(path, prefix) ==
    Len(path) >= Len(prefix) /\ SubSeq(path, 1, Len(prefix)) = prefix

\* The open FTS transaction has written: it holds the database's write lock.
WriterHoldsLock == wpc = "fts" /\ fts_pending # {}

\* What remove_scan_path leaves alone in the catalog group.
RemoveCatFrame ==
    UNCHANGED <<db_q, buf, fts_rows, fts_pending, wpc, wn, thumb_q, gauge_thumb,
                del, nitems, ndel, thumb_attempted, thumb_dropped>>

\* remove_scan_path, in spawn_blocking: delete_assets_by_path_prefix (one
\* transaction: the FTS row of every matching id is deleted, each result
\* discarded, then the matching asset rows), then db::writer::remove_scan_path
\* takes the root out of scan_paths. 200 at once if no row was deleted.
RemoveDb(s) ==
    /\ req[s].op = "remove" /\ req[s].pc = "db"
    /\ ~WriterHoldsLock
    /\ LET gone == {a \in assets : UnderPrefix(a.path, <<req[s].root>>)} IN
        /\ \E ok \in SUBSET {a.id : a \in gone} : fts' = fts \ ok
        /\ assets' = assets \ gone
        /\ req' = IF gone = {} THEN Respond(req, s, 200)
                  ELSE [req EXCEPT ![s].n = Cardinality(gone), ![s].pc = "dec_load"]
    /\ scan_paths' = scan_paths \ {req[s].root}
    /\ UNCHANGED <<scan_running, path_scan_running, flag, last_scan_start, tasks, nreq>>
    /\ UNCHANGED files_committed
    /\ RemoveCatFrame
    /\ UNCHANGED <<gpuVars, scanVars, otherVars>>

\* The pool or the transaction fails: 500, the catalog and the root stay.
RemoveDbFails(s) ==
    /\ req[s].op = "remove" /\ req[s].pc = "db"
    /\ req' = Respond(req, s, 500)
    /\ UNCHANGED <<scan_running, path_scan_running, flag, scan_paths, last_scan_start, tasks, nreq>>
    /\ SupOnly

\* dec_files_committed(assets_deleted): let current = files_committed.load()
RemoveDecLoad(s) ==
    /\ req[s].op = "remove" /\ req[s].pc = "dec_load"
    /\ req' = [req EXCEPT ![s].cur = files_committed, ![s].pc = "dec_store"]
    /\ UNCHANGED <<scan_running, path_scan_running, flag, scan_paths, last_scan_start, tasks, nreq>>
    /\ SupOnly

\* dec_files_committed: files_committed.store(current.saturating_sub(n)); 200.
RemoveDecStore(s) ==
    /\ req[s].op = "remove" /\ req[s].pc = "dec_store"
    /\ files_committed' = (IF req[s].cur >= req[s].n THEN req[s].cur - req[s].n ELSE 0)
    /\ req' = Respond(req, s, 200)
    /\ UNCHANGED <<scan_running, path_scan_running, flag, scan_paths, last_scan_start, tasks, nreq>>
    /\ UNCHANGED <<assets, fts>>
    /\ RemoveCatFrame
    /\ UNCHANGED <<gpuVars, scanVars, otherVars>>

\* The scan task: scan_bfs returns (the walk is over, or it saw its flag
\* cleared), then scan_running.store(false) on the task's own flag clone.
TaskStore(t) ==
    /\ tasks[t].pc = "scan"
    /\ flag' = [flag EXCEPT ![tasks[t].f] = FALSE]
    /\ tasks' = [tasks EXCEPT ![t].pc = "any"]
    /\ UNCHANGED <<scan_running, path_scan_running, scan_paths, last_scan_start, req, nreq>>
    /\ SupOnly

\* let any_active = path_scan_map.lock().values().any(..)
TaskAny(t) ==
    /\ tasks[t].pc = "any"
    /\ tasks' = [tasks EXCEPT ![t].any = AnyActive(path_scan_running, flag), ![t].pc = "fin"]
    /\ UNCHANGED <<scan_running, path_scan_running, flag, scan_paths, last_scan_start, req, nreq>>
    /\ SupOnly

\* if !any_active { finish_processing(); finish_scan(); global.store(false) }
\* else { global.store(true) }
TaskFin(t) ==
    /\ tasks[t].pc = "fin"
    /\ scan_running' = tasks[t].any
    /\ last_scan_start' = (IF tasks[t].any THEN last_scan_start ELSE FALSE)
    /\ tasks' = [tasks EXCEPT ![t] = FreeTask]
    /\ flag' = Collect(flag, path_scan_running, req, tasks')
    /\ UNCHANGED <<path_scan_running, scan_paths, req, nreq>>
    /\ SupOnly



(***************************************************************************)
(* Claims about the scan supervisor (checked under SupSpec).               *)
(***************************************************************************)
\* No request handler and no scan task is between two of its steps: every
\* handler has responded and every live task is still inside scan_bfs.
SupAtRest ==
    /\ \A s \in Slots : req[s].pc = "idle"
    /\ \A t \in TaskIds : tasks[t].pc \in {"free", "scan"}

\* C1: if any per-root scan-running flag is true then the global scan-running
\* flag is true. The claim is for every moment; it is stated here only for
\* the moments at which nothing is part-way through an update, where it is
\* least demanding, and it fails there too.
C1_PerRootFlagImpliesGlobal ==
    SupAtRest => (AnyActive(path_scan_running, flag) => scan_running)

\* A scan task of root r is executing and its running flag is set.
RootScanRunning(r) ==
    \E t \in TaskIds : tasks[t].pc = "scan" /\ tasks[t].root = r /\ flag[tasks[t].f]

\* C10: an Add or Scan request for a root whose scan is running is refused
\* with 409 and starts no additional scan task: a handler that reaches its
\* swap while a scan task of the same root is executing with its running flag
\* set answers 409, and the set of tasks is left as it was.
C10_RunningRootRefused ==
    [][\A s \in Slots :
          (req[s].pc = "swap" /\ req'[s] # req[s] /\ RootScanRunning(req[s].root))
              => (req'[s].pc = "idle" /\ req'[s].status = 409 /\ tasks' = tasks)]_vars

\* C14: when Resume answers for a root that Pause had paused (watcher
\* paused, scan flag mapped and declared root, no removal under way), the
\* root is scanning again (its scan-running flag is true) and its watcher
\* processes events again.
C14_ResumeRestoresScanning ==
    [][\A s \in Slots :
          (/\ req[s].op = "resume" /\ req'[s].pc = "idle"
           /\ path_watcher_paused[req[s].root] = "true"
           /\ path_scan_running[req[s].root] # 0
           /\ \A o \in Slots : ~(req[o].op = "remove" /\ req[o].root = req[s].root))
              => /\ path_watcher_paused'[req[s].root] = "false"
                 /\ path_scan_running'[req[s].root] # 0
                 /\ flag'[path_scan_running'[req[s].root]]]_vars

\* Resume alone re-enables the watcher of the root.
ResumeEnablesWatcher ==
    [][\A s \in Slots :
          (req[s].op = "resume" /\ req'[s].pc = "idle")
              => path_watcher_paused'[req[s].root] = "false"]_vars

\* A root whose scan was under way has been paused and resumed: every
\* request has been answered, the watcher is enabled, the scan task is
\* still there and its flag is false.
C14_Witness ==
    /\ \A s \in Slots : req[s].pc = "idle"
    /\ \E t \in TaskIds :
          /\ tasks[t].pc = "scan"
          /\ path_scan_running[tasks[t].root] = tasks[t].f
          /\ ~flag[tasks[t].f]
          /\ path_watcher_paused[tasks[t].root] = "false"

\* The scan tasks of root r that are inside scan_bfs.
ScanTasksOf(r) == {t \in TaskIds : tasks[t].pc = "scan" /\ tasks[t].root = r}

\* C22: at most one scan task per root is executing at any time, also when
\* a Scan or Add follows a Pause that the earlier task has not yet observed.
C22_OneScanTaskPerRoot ==
    \A r \in Roots : Cardinality(ScanTasksOf(r)) <= 1

\* C22, second half: a scan task that finishes never clears the running
\* flag of another scan task of the same root that is still executing.
FinishKeepsNewerFlag ==
    [][\A t \in TaskIds : \A u \in TaskIds \ {t} :
          (/\ tasks[t].pc = "scan" /\ tasks'[t].pc = "any"
           /\ tasks[u].pc = "scan" /\ tasks[u].root = tasks[t].root)
              => flag'[tasks[u].f] = flag[tasks[u].f]]_vars

\* C22 happens: two scan tasks of one root started through the same mapped
\* flag (the second after a Pause cleared it), one has finished and stored
\* false, the other is still inside scan_bfs with its flag cleared.
C22_Witness ==
    \E t \in TaskIds : \E u \in TaskIds \ {t} :
        /\ tasks[t].pc \in {"any", "fin"} /\ tasks[u].pc = "scan"
        /\ tasks[t].root = tasks[u].root /\ tasks[t].f = tasks[u].f
        /\ path_scan_running[tasks[u].root] = tasks[u].f
        /\ ~flag[tasks[u].f]
        /\ \A s \in Slots : req[s].pc = "idle"

\* C32: start_scan is triggered exactly once each time the set of active
\* roots goes from empty to non-empty, under concurrent Add and Scan requests
\* and task completions. Only a handler's successful swap adds a root to the
\* active set, and that handler calls start_scan if and only if the
\* was_scanning it read earlier is false: so the handler whose swap makes the
\* set non-empty holds was_scanning = false, and a handler whose swap finds
\* another root active holds was_scanning = true.
C32_StartScanOncePerActivation ==
    [][\A s \in Slots :
          (req[s].pc = "swap" /\ req'[s].pc = "start")
              => (req[s].was = AnyActive(path_scan_running, flag))]_vars

\* C32 happens: every request has been answered, a scan task is inside
\* scan_bfs with its root's flag set, and the scan timer is not running: the
\* handler that started it had read was_scanning = true from a root whose
\* task finished (finish_scan) before the handler's swap.
C32_Witness ==
    /\ SupAtRest
    /\ \E t \in TaskIds :
          /\ tasks[t].pc = "scan"
          /\ path_scan_running[tasks[t].root] = tasks[t].f
          /\ flag[tasks[t].f]
    /\ ~last_scan_start

SupNext ==
    \/ \E s \in Slots : \E op \in {"add", "scan", "pause", "resume", "remove"} :
         \E r \in Roots : Arrive(s, op, r)
    \/ \E s \in Slots : AddBegin(s)
    \/ \E s \in Slots : ScanCheckExists(s)
    \/ \E s \in Slots : ReadWasScanning(s)
    \/ \E s \in Slots : GetOrCreateFlag(s)
    \/ \E s \in Slots : SwapRunning(s)
    \/ \E s \in Slots : StartScan(s)
    \/ \E s \in Slots : PauseStore(s)
    \/ \E s \in Slots : RecomputeAny(s)
    \/ \E s \in Slots : PauseGlobal(s)
    \/ \E s \in Slots : ResumePath(s)
    \/ \E s \in Slots : RemoveStop(s)
    \/ \E s \in Slots : RemoveUnmap(s)
    \/ \E s \in Slots : RemoveGlobal(s)
    \/ \E s \in Slots : RemoveDb(s)
    \/ \E t \in TaskIds : TaskStore(t)
    \/ \E t \in TaskIds : TaskAny(t)
    \/ \E t \in TaskIds : TaskFin(t)

(***************************************************************************)
(* The catalog: the writer, the delete paths and the commit counter.       *)
(***************************************************************************)
BATCH_SIZE == 2     \* run_writer_impl flushes at this many buffered rows (500 in the source)
DbQueueCap == 1     \* capacity of the db-write channel (65_536 in the source)
ThumbQueueCap == 1  \* capacity of the thumbnail channel (16_384 in the source)
MaxItems == 3       \* items the metadata stage sends in one run
MaxDeletes == 1     \* delete operations started in one run

Names == {"x"}
CatPaths == {<<r, n>> : r \in Roots, n \in Names}     \* a path: its root, then the rest
Deleters == {1}

\* Option<Vec<u8>>
None == [some |-> FALSE, bytes |-> <<>>]
Some(b) == [some |-> TRUE, bytes |-> b]

\* Option<i64>
NoInt == [some |-> FALSE, v |-> 0]
SomeInt(v) == [some |-> TRUE, v |-> v]

\* A DbWriteItem, with the fields the catalog and the skip gate read.
DbWriteItem(path, sha, mime, size_bytes, mtime_ns, width, height, duration_ms) ==
    [path |-> path, sha |-> sha, mime |-> mime, size_bytes |-> size_bytes,
     mtime_ns |-> mtime_ns, width |-> width, height |-> height, duration_ms |-> duration_ms]
\* What hash_file hands on: no SHA-256 (large image, or the hash failed), or a digest.
Shas == {None, Some(<<171>>)}

HexChars == <<"0", "1", "2", "3", "4", "5", "6", "7", "8", "9", "a", "b", "c", "d", "e", "f">>

\* hex::encode
RECURSIVE Hex(_)
Hex(b) ==
    IF b = <<>> THEN <<>>
    ELSE <<HexChars[(Head(b) \div 16) + 1], HexChars[(Head(b) % 16) + 1]>> \o Hex(Tail(b))

Max(S) == CHOOSE x \in S : \A y \in S : y <= x

\* id INTEGER PRIMARY KEY without AUTOINCREMENT: the next rowid is the largest plus one.
NextId(rows) == IF rows = {} THEN 1 ELSE Max({r.id : r \in rows}) + 1

\* A plain INSERT, without the ON CONFLICT clause.
InsertAlways(rows, it) ==
    LET id == NextId(rows) IN
    [rows |-> rows \cup {[id |-> id] @@ it}, id |-> id]

\* upsert_item: INSERT .. ON CONFLICT(path) DO UPDATE SET .. RETURNING id
upsert_item(rows, it) ==
    IF \E r \in rows : r.path = it.path
    THEN LET old == CHOOSE r \in rows : r.path = it.path IN
         [rows |-> (rows \ {old}) \cup {[id |-> old.id] @@ it}, id |-> old.id]
    ELSE LET id == NextId(rows) IN
         [rows |-> rows \cup {[id |-> id] @@ it}, id |-> id]

\* commit_batch, first transaction: buf.drain(..) through upsert_item, each
\* returned id pushed on fts_rows.
RECURSIVE UpsertAll(_, _, _)
UpsertAll(rows, items, out) ==
    IF items = <<>> THEN [rows |-> rows, fts_rows |-> out]
    ELSE LET u == upsert_item(rows, Head(items)) IN
         UpsertAll(u.rows, Tail(items),
                   Append(out, [id |-> u.id, path |-> Head(items).path,
                                sha |-> Head(items).sha, mime |-> Head(items).mime]))

\* u64::saturating_sub
saturating_sub(a, b) == IF a >= b THEN a - b ELSE 0

IdleDel == [op |-> "none", pc |-> "idle", path |-> <<>>, id |-> 0, n |-> 0, cur |-> 0, gone |-> {}]

CatInit ==
    /\ assets = {}
    /\ fts = {}
    /\ db_q = <<>>
    /\ buf = <<>>
    /\ fts_rows = <<>>
    /\ fts_pending = {}
    /\ wpc = "recv"
    /\ wn = 0
    /\ files_committed = 0
    /\ thumb_q = <<>>
    /\ gauge_thumb = 0
    /\ del = [d \in Deleters |-> IdleDel]
    /\ nitems = 0
    /\ ndel = 0
    /\ thumb_attempted = {}
    /\ thumb_dropped = {}

\* The metadata stage sends a DbWriteItem (db_tx.send waits while the channel is full).
SendDbItem(path, sha) ==
    /\ nitems < MaxItems
    /\ Len(db_q) < DbQueueCap
    /\ db_q' = Append(db_q, DbWriteItem(path, sha, "image", 1024, 1, SomeInt(640), SomeInt(480), NoInt))
    /\ nitems' = nitems + 1
    /\ UNCHANGED <<assets, fts, buf, fts_rows, fts_pending, wpc, wn, files_committed,
                   thumb_q, gauge_thumb, del, ndel, thumb_attempted, thumb_dropped>>
    /\ CatOnly

\* run_writer_impl, Ok(Some(item)): buf.push(item), then should_flush: the
\* buffer is full, or FLUSH_INTERVAL has passed (either is possible).
WriterRecv ==
    /\ wpc = "recv"
    /\ db_q # <<>>
    /\ buf' = Append(buf, Head(db_q))
    /\ db_q' = Tail(db_q)
    /\ \E elapsed \in BOOLEAN :
          wpc' = IF Len(buf') >= BATCH_SIZE \/ elapsed THEN "flush" ELSE "recv"
    /\ UNCHANGED <<assets, fts, fts_rows, fts_pending, wn, files_committed,
                   thumb_q, gauge_thumb, del, nitems, ndel, thumb_attempted, thumb_dropped>>
    /\ CatOnly

\* A writer that never flushes when its receive times out.
flush_never(b, elapsed) == FALSE

\* Err(_) => if !buf.is_empty() && last_flush.elapsed() >= FLUSH_INTERVAL
flush_on_timeout(b, elapsed) == b # <<>> /\ elapsed

\* run_writer_impl, Err(_): the receive timed out with rows buffered. The
\* time-out was FLUSH_INTERVAL - elapsed (or 100 ms past the interval), so
\* FLUSH_INTERVAL has passed since the last flush.
WriterTimeout ==
    /\ wpc = "recv"
    /\ flush_on_timeout(buf, TRUE)
    /\ wpc' = "flush"
    /\ UNCHANGED <<assets, fts, db_q, buf, fts_rows, fts_pending, wn, files_committed,
                   thumb_q, gauge_thumb, del, nitems, ndel, thumb_attempted, thumb_dropped>>
    /\ CatOnly

\* let n = buf.len(); commit_batch: the first transaction upserts every
\* buffered item and commits.
CommitAssets ==
    /\ wpc = "flush"
    /\ LET u == UpsertAll(assets, buf, fts_rows) IN
        /\ assets' = u.rows
        /\ fts_rows' = u.fts_rows
    /\ wn' = Len(buf)
    /\ buf' = <<>>
    /\ wpc' = "fts"
    /\ UNCHANGED <<fts, db_q, fts_pending, files_committed,
                   thumb_q, gauge_thumb, del, nitems, ndel, thumb_attempted, thumb_dropped>>
    /\ CatOnly

\* A writer that logs a failed batch and goes back to receiving.
after_commit_error_continue == "recv"

\* Err(e) => { eprintln!(..); return Err(e); }: run_writer_impl returns, and
\* main only logs the error: the writer is gone.
after_commit_error == "dead"

\* commit_batch: upsert_item fails: the first transaction is dropped (rolled
\* back) and the writer returns the error and exits.
UpsertFails ==
    /\ wpc = "flush"
    /\ buf' = <<>>
    /\ wpc' = after_commit_error
    /\ UNCHANGED <<assets, fts, db_q, fts_rows, fts_pending, wn, files_committed,
                   thumb_q, gauge_thumb, del, nitems, ndel, thumb_attempted, thumb_dropped>>
    /\ CatOnly

\* The thumbnail part of one round of commit_batch's second loop:
\*   if let Some(sha) = chunk.4 { if !sha.is_empty() {
\*       let _ = thumb_tx.try_send(ThumbJob{..}); gauges.thumb.fetch_add(1) } }
\* given the row, the channel and the gauge; attempted tells whether try_send ran.
EnqueueThumb(row, q, g) ==
    IF row.sha.some /\ row.sha.bytes # <<>>
    THEN [q |-> IF Len(q) < ThumbQueueCap
                THEN Append(q, [id |-> row.id, path |-> row.path,
                                sha256_hex |-> Hex(row.sha.bytes), mime |-> row.mime])
                ELSE q,
          g |-> g + 1, attempted |-> TRUE, dropped |-> Len(q) >= ThumbQueueCap]
    ELSE [q |-> q, g |-> g, attempted |-> FALSE, dropped |-> FALSE]

\* commit_batch, second transaction: INSERT INTO fts_assets(rowid, ..) for the
\* next row succeeds, then the thumbnail job.
FtsInsert ==
    /\ wpc = "fts"
    /\ fts_rows # <<>>
    /\ LET row == Head(fts_rows)
           e == EnqueueThumb(row, thumb_q, gauge_thumb) IN
        /\ fts_pending' = fts_pending \cup {row.id}
        /\ thumb_q' = e.q
        /\ gauge_thumb' = e.g
        /\ thumb_attempted' = IF e.attempted THEN thumb_attempted \cup {row.path}
                              ELSE thumb_attempted
        /\ thumb_dropped' = IF e.dropped THEN thumb_dropped \cup {row.path}
                            ELSE IF e.attempted THEN thumb_dropped \ {row.path}
                            ELSE thumb_dropped
    /\ fts_rows' = Tail(fts_rows)
    /\ UNCHANGED <<assets, fts, db_q, buf, wpc, wn, files_committed, del, nitems, ndel>>
    /\ CatOnly

\* commit_batch, second transaction: the FTS insert (or the commit) fails:
\* return Err, the second transaction is rolled back, the rest of fts_rows is
\* dropped with the drained vector, and the writer exits. The first
\* transaction stays committed.
FtsInsertFails ==
    /\ wpc = "fts"
    /\ fts_pending' = {}
    /\ fts_rows' = <<>>
    /\ wpc' = after_commit_error
    /\ UNCHANGED <<assets, fts, db_q, buf, wn, files_committed,
                   thumb_q, gauge_thumb, del, nitems, ndel, thumb_attempted, thumb_dropped>>
    /\ CatOnly

\* tx2.commit()
CommitFts ==
    /\ wpc = "fts"
    /\ fts_rows = <<>>
    /\ fts' = fts \cup fts_pending
    /\ fts_pending' = {}
    /\ wpc' = "count"
    /\ UNCHANGED <<assets, db_q, buf, fts_rows, wn, files_committed,
                   thumb_q, gauge_thumb, del, nitems, ndel, thumb_attempted, thumb_dropped>>
    /\ CatOnly

\* commit_batch returned Ok: stats.inc_files_committed(n), a fetch_add.
CountCommitted ==
    /\ wpc = "count"
    /\ files_committed' = files_committed + wn
    /\ wpc' = "recv"
    /\ UNCHANGED <<assets, fts, db_q, buf, fts_rows, fts_pending, wn,
                   thumb_q, gauge_thumb, del, nitems, ndel, thumb_attempted, thumb_dropped>>
    /\ CatOnly

\* The thumbnail stage takes a job: rx.recv() and gauges.thumb.fetch_sub(1).
ThumbRecv ==
    /\ thumb_q # <<>>
    /\ thumb_q' = Tail(thumb_q)
    /\ gauge_thumb' = gauge_thumb - 1
    /\ UNCHANGED <<assets, fts, db_q, buf, fts_rows, fts_pending, wpc, wn, files_committed,
                   del, nitems, ndel, thumb_attempted, thumb_dropped>>
    /\ CatOnly

\* A delete operation starts: DELETE /assets/:id ("by_id"), a watcher Remove
\* event ("by_path"), or remove_scan_path's catalog part ("by_prefix").
StartDelete(d, op, path, id) ==
    /\ del[d].pc = "idle"
    /\ ndel < MaxDeletes
    /\ ndel' = ndel + 1
    /\ del' = [del EXCEPT ![d] = [op |-> op, pc |-> "begin", path |-> path, id |-> id,
                                  n |-> 0, cur |-> 0, gone |-> {}]]
    /\ UNCHANGED <<assets, fts, db_q, buf, fts_rows, fts_pending, wpc, wn, files_committed,
                   thumb_q, gauge_thumb, nitems, thumb_attempted, thumb_dropped>>
    /\ CatOnly

\* delete_asset_by_id: DELETE FROM assets WHERE id = ?
DeleteByIdAssets(d) ==
    /\ del[d].op = "by_id" /\ del[d].pc = "begin"
    /\ ~WriterHoldsLock
    /\ assets' = {r \in assets : r.id # del[d].id}
    /\ del' = [del EXCEPT ![d].n = Cardinality(assets) - Cardinality(assets'),
                          ![d].gone = {r.id : r \in assets \ assets'},
                          ![d].pc = "fts"]
    /\ UNCHANGED <<fts, db_q, buf, fts_rows, fts_pending, wpc, wn, files_committed,
                   thumb_q, gauge_thumb, nitems, ndel, thumb_attempted, thumb_dropped>>
    /\ CatOnly

\* delete_asset_by_path: SELECT id FROM assets WHERE path = ?  (.ok())
DeleteByPathSelect(d) ==
    /\ del[d].op = "by_path" /\ del[d].pc = "begin"
    /\ del' = [del EXCEPT ![d].id = IF \E r \in assets : r.path = del[d].path
                                    THEN (CHOOSE r \in assets : r.path = del[d].path).id
                                    ELSE 0,
                          ![d].pc = "assets"]
    /\ UNCHANGED <<assets, fts, db_q, buf, fts_rows, fts_pending, wpc, wn, files_committed,
                   thumb_q, gauge_thumb, nitems, ndel, thumb_attempted, thumb_dropped>>
    /\ CatOnly

\* delete_asset_by_path: DELETE FROM assets WHERE path = ?
DeleteByPathAssets(d) ==
    /\ del[d].op = "by_path" /\ del[d].pc = "assets"
    /\ ~WriterHoldsLock
    /\ assets' = {r \in assets : r.path # del[d].path}
    /\ del' = [del EXCEPT ![d].n = Cardinality(assets) - Cardinality(assets'),
                          ![d].gone = {r.id : r \in assets \ assets'},
                          ![d].pc = "fts"]
    /\ UNCHANGED <<fts, db_q, buf, fts_rows, fts_pending, wpc, wn, files_committed,
                   thumb_q, gauge_thumb, nitems, ndel, thumb_attempted, thumb_dropped>>
    /\ CatOnly

\* After the FTS statement: delete_asset ends (it never touches the counter);
\* the watcher goes on to dec_files_committed(1) if a row was deleted.
AfterFts(d) ==
    IF del[d].op = "by_path" /\ del[d].n > 0 THEN "load" ELSE "done"

\* let _ = conn.execute("DELETE FROM fts_assets WHERE rowid = ?", id): the
\* statement deletes the row, or fails and the error is discarded. By path it
\* runs only if the SELECT found an id.
DeleteFts(d) ==
    /\ del[d].op \in {"by_id", "by_path"} /\ del[d].pc = "fts"
    /\ ~WriterHoldsLock
    /\ \E ok \in BOOLEAN :
          fts' = IF ok /\ del[d].id # 0 THEN fts \ {del[d].id} ELSE fts
    /\ del' = [del EXCEPT ![d].pc = AfterFts(d)]
    /\ UNCHANGED <<assets, db_q, buf, fts_rows, fts_pending, wpc, wn, files_committed,
                   thumb_q, gauge_thumb, nitems, ndel, thumb_attempted, thumb_dropped>>
    /\ CatOnly

\* delete_assets_by_path_prefix, one transaction: the ids under the prefix,
\* an FTS delete for each (each may fail, the error is discarded), the asset
\* rows, commit. remove_scan_path then decrements if assets_deleted > 0.
DeleteByPrefix(d) ==
    /\ del[d].op = "by_prefix" /\ del[d].pc = "begin"
    /\ ~WriterHoldsLock
    /\ LET gone == {r \in assets : UnderPrefix(r.path, del[d].path)} IN
        /\ \E ok \in SUBSET {r.id : r \in gone} : fts' = fts \ ok
        /\ assets' = assets \ gone
        /\ del' = [del EXCEPT ![d].n = Cardinality(gone),
                              ![d].gone = {r.id : r \in gone},
                              ![d].pc = IF Cardinality(gone) > 0 THEN "load" ELSE "done"]
    /\ UNCHANGED <<db_q, buf, fts_rows, fts_pending, wpc, wn, files_committed,
                   thumb_q, gauge_thumb, nitems, ndel, thumb_attempted, thumb_dropped>>
    /\ CatOnly

\* dec_files_committed: let current = files_committed.load()
DecLoad(d) ==
    /\ del[d].pc = "load"
    /\ del' = [del EXCEPT ![d].cur = files_committed, ![d].pc = "store"]
    /\ UNCHANGED <<assets, fts, db_q, buf, fts_rows, fts_pending, wpc, wn, files_committed,
                   thumb_q, gauge_thumb, nitems, ndel, thumb_attempted, thumb_dropped>>
    /\ CatOnly

\* dec_files_committed: files_committed.store(current.saturating_sub(n))
DecStore(d) ==
    /\ del[d].pc = "store"
    /\ files_committed' = saturating_sub(del[d].cur, del[d].n)
    /\ del' = [del EXCEPT ![d].pc = "done"]
    /\ UNCHANGED <<assets, fts, db_q, buf, fts_rows, fts_pending, wpc, wn,
                   thumb_q, gauge_thumb, nitems, ndel, thumb_attempted, thumb_dropped>>
    /\ CatOnly

\* The delete operation returns.
DeleteDone(d) ==
    /\ del[d].pc = "done"
    /\ del' = [del EXCEPT ![d] = IdleDel]
    /\ UNCHANGED <<assets, fts, db_q, buf, fts_rows, fts_pending, wpc, wn, files_committed,
                   thumb_q, gauge_thumb, nitems, ndel, thumb_attempted, thumb_dropped>>
    /\ CatOnly

(***************************************************************************)
(* Claims about the catalog (checked under CatSpec, C6 under CommitSpec).  *)
(***************************************************************************)
\* C2: files_committed never decreases except through a deletion, and a
\* deletion lowers it by exactly the number of catalog rows it deleted: a
\* step either leaves files_committed at least as large, or is the store of
\* a delete operation's dec_files_committed and lowers it by that operation's
\* number of deleted rows.
C2_DecreaseOnlyByDeletionCount ==
    [][\/ files_committed' >= files_committed
       \/ \E d \in Deleters : /\ del[d].pc = "store" /\ del'[d].pc = "done"
                              /\ files_committed - files_committed' = del[d].n]_vars

\* C3: every committed row with a non-empty SHA-256 has had a thumbnail
\* enqueue attempted by the time the writer is done with the row's batch, and
\* no queued job carries an empty digest.
C3_CommittedRowsAttempted ==
    /\ wpc # "fts" => \A r \in assets :
            (r.sha.some /\ r.sha.bytes # <<>>) => r.path \in thumb_attempted
    /\ \A i \in 1..Len(thumb_q) : thumb_q[i].sha256_hex # <<>>

\* No write operation is in progress: the writer is between batches (or has
\* exited) and no delete operation is running.
CatalogAtRest ==
    /\ wpc \in {"recv", "count", "dead"}
    /\ \A d \in Deleters : del[d].pc = "idle"

\* C4: whenever no write operation is in progress, every asset row has an FTS
\* row keyed by its id.
C4_EveryAssetHasFtsRow ==
    CatalogAtRest => \A r \in assets : r.id \in fts

\* C5: when a delete operation (by id, by path or by path prefix) completes,
\* no FTS row remains for an asset id it deleted.
C5_NoFtsRowAfterDelete ==
    [][\A d \in Deleters :
          (del[d].pc = "done" /\ del'[d].pc = "idle") => del[d].gone \cap fts = {}]_vars

\* C6: after any sequence of successful commit cycles the catalog holds
\* exactly one row per path: no two rows ever share a path or an id, and the
\* first transaction of a batch leaves exactly one row for the path of each
\* item of the batch.
C6_OneRowPerPath ==
    [][/\ \A r1, r2 \in assets' : (r1.path = r2.path \/ r1.id = r2.id) => r1 = r2
       /\ (wpc = "flush" /\ wpc' = "fts")
              => \A i \in 1..Len(buf) :
                     Cardinality({r \in assets' : r.path = buf[i].path}) = 1]_vars

\* C6 happens: a path committed by an earlier batch is observed again, twice
\* within one batch; its two items got the id of the existing row.
C6_Witness ==
    /\ wpc = "fts"
    /\ Len(fts_rows) = 2
    /\ fts_rows[1].id = fts_rows[2].id
    /\ fts_rows[1].id \in fts
    /\ Cardinality(assets) = 1

\* C21: the asset rows of a batch and their FTS rows commit in one
\* transaction: the step of the writer that makes a batch's asset rows
\* durable makes the FTS row of each of them durable too, so that no
\* failure can come between the two.
C21_BatchCommitsAtomically ==
    [][(wpc = "flush" /\ assets' # assets)
          => \A r \in assets' \ assets : r.id \in fts']_vars

\* C21 happens: the writer has exited after a failure of the FTS
\* transaction, nothing was deleted, and a durable asset row has no FTS row.
C21_Witness ==
    /\ wpc = "dead" /\ ndel = 0 /\ fts_pending = {}
    /\ \E r \in assets : r.id \notin fts

\* C24: each queue-depth gauge is incremented once per item actually placed
\* on its queue and decremented once per item received, so it equals the
\* number of items in flight, also when a non-blocking send fails: stated
\* for the thumbnail queue, the one fed by a non-blocking send.
C24_GaugeEqualsInFlight ==
    gauge_thumb = Len(thumb_q)

\* C24 happens: the writer is between batches, the thumbnail queue has been
\* emptied by its consumer, and the gauge still reports jobs in flight.
C24_Witness ==
    /\ wpc = "recv" /\ buf = <<>>
    /\ thumb_q = <<>>
    /\ gauge_thumb > 0

\* The writer thread is running: it has neither returned nor failed.
WriterRunning == wpc \notin {"dead", "done"}

\* C38: the catalog writer thread is the only writer to the main catalog
\* tables: while the writer is running, every step that inserts, updates or
\* deletes an asset row or an FTS row is a step of the writer (one that
\* moves the writer on in its own commit).
C38_WriterIsOnlyWriter ==
    [][(WriterRunning /\ (assets' # assets \/ fts' # fts))
          => <<wpc, buf, fts_rows, fts_pending>>' # <<wpc, buf, fts_rows, fts_pending>>]_vars

\* C38 happens: while the writer waits for its next item with rows
\* committed, another task has deleted an asset row and is about to delete
\* the FTS row.
C38_Witness ==
    /\ wpc = "recv"
    /\ files_committed > 0
    /\ \E d \in Deleters : del[d].pc = "fts" /\ del[d].gone # {}

\* The catalog is quiescent: the db-write channel and the writer's buffer are
\* empty, the writer waits for the next item and no delete is running.
CatalogQuiescent ==
    /\ db_q = <<>> /\ buf = <<>>
    /\ wpc = "recv"
    /\ \A d \in Deleters : del[d].pc = "idle"

\* C34: whenever no scan is running and every queue is empty, files_committed
\* equals the number of rows of the catalog, across re-commits of paths that
\* are already catalogued and deletions through every delete path.
C34_CounterEqualsRowCount ==
    CatalogQuiescent => files_committed = Cardinality(assets)

\* C34 happens: nothing was ever deleted and no statement failed, the catalog
\* is quiescent, and the counter exceeds the number of rows: a path that was
\* already catalogued has been committed again.
C34_Witness ==
    /\ CatalogQuiescent
    /\ ndel = 0
    /\ files_committed = nitems
    /\ files_committed > Cardinality(assets)

\* Successful discover-to-commit cycles only: no statement fails and nothing
\* is deleted.
CommitNext ==
    \/ \E path \in CatPaths, sha \in Shas : SendDbItem(path, sha)
    \/ WriterRecv
    \/ WriterTimeout
    \/ CommitAssets
    \/ FtsInsert
    \/ CommitFts
    \/ CountCommitted
    \/ ThumbRecv

CatNext ==
    \/ \E path \in CatPaths, sha \in Shas : SendDbItem(path, sha)
    \/ WriterRecv
    \/ WriterTimeout
    \/ CommitAssets
    \/ UpsertFails
    \/ FtsInsert
    \/ FtsInsertFails
    \/ CommitFts
    \/ CountCommitted
    \/ ThumbRecv
    \/ \E d \in Deleters, id \in 1..MaxItems : StartDelete(d, "by_id", <<>>, id)
    \/ \E d \in Deleters, path \in CatPaths : StartDelete(d, "by_path", path, 0)
    \/ \E d \in Deleters, r \in Roots : StartDelete(d, "by_prefix", <<r>>, 0)
    \/ \E d \in Deleters : DeleteByIdAssets(d)
    \/ \E d \in Deleters : DeleteByPathSelect(d)
    \/ \E d \in Deleters : DeleteByPathAssets(d)
    \/ \E d \in Deleters : DeleteFts(d)
    \/ \E d \in Deleters : DeleteByPrefix(d)
    \/ \E d \in Deleters : DecLoad(d)
    \/ \E d \in Deleters : DecStore(d)
    \/ \E d \in Deleters : DeleteDone(d)

(***************************************************************************)
(* The writer's flushing (FlushSpec): items arrive, the senders of the     *)
(* db-write channel may be dropped, statements may fail. The writer runs   *)
(* on a thread of its own and its receive has a time-out, so each of its   *)
(* steps is taken once it stays possible.                                  *)
(***************************************************************************)
\* A metadata worker sends while the channel has its senders.
Produce(path, sha) ==
    /\ ~db_closed
    /\ SendDbItem(path, sha)

\* The last Sender<DbWriteItem> is dropped.
DropSenders ==
    /\ ~db_closed
    /\ db_closed' = TRUE
    /\ UNCHANGED <<supVars, gpuVars, catVars, scanVars, derVars, watchVars, permVars,
                   rangeVars, albumVars, gaugeVars>>

\* run_writer_impl, Ok(None) => break, and what follows the loop: the rest
\* of the buffer is committed like any batch (after which the writer
\* returns), or the writer returns Ok at once.
WriterClosed ==
    /\ wpc = "recv"
    /\ db_q = <<>> /\ db_closed
    /\ wpc' = IF buf # <<>> THEN "flush" ELSE "done"
    /\ UNCHANGED <<assets, fts, db_q, buf, fts_rows, fts_pending, wn, files_committed,
                   thumb_q, gauge_thumb, del, nitems, ndel, thumb_attempted, thumb_dropped>>
    /\ CatOnly

FlushNext ==
    \/ \E path \in CatPaths, sha \in Shas : Produce(path, sha)
    \/ DropSenders
    \/ WriterRecv
    \/ WriterTimeout
    \/ WriterClosed
    \/ CommitAssets
    \/ UpsertFails
    \/ FtsInsert
    \/ FtsInsertFails
    \/ CommitFts
    \/ CountCommitted
    \/ ThumbRecv

WriterRuns ==
    /\ WF_vars(WriterRecv) /\ WF_vars(WriterTimeout) /\ WF_vars(WriterClosed)
    /\ WF_vars(CommitAssets) /\ WF_vars(FtsInsert) /\ WF_vars(CommitFts)
    /\ WF_vars(CountCommitted)

\* The writer holds an item of this path in its buffer.
InBuf(p) == \E i \in DOMAIN buf : buf[i].path = p

\* The first transaction of a batch has just made the row of p durable.
JustCommitted(p) == wpc = "fts" /\ buf = <<>> /\ \E r \in assets : r.path = p

\* GET /stats: has_queued_items, reported as processing_active.
has_queued_items ==
    \/ gauges["discover"] > 0 \/ gauges["hash"] > 0 \/ gauges["metadata"] > 0
    \/ gauges["db_write"] > 0 \/ gauge_thumb > 0

\* Every item of the run has been sent and consumed: the db-write channel,
\* the writer's buffer and the thumbnail channel are empty and the writer
\* waits in recv.
PipelineDrained ==
    /\ nitems = MaxItems
    /\ db_q = <<>> /\ buf = <<>> /\ wpc = "recv"
    /\ thumb_q = <<>>

\* The writer and the thumbnail workers run whenever they have work.
ConsumersRun == WriterRuns /\ WF_vars(ThumbRecv)

\* C35: after all scans have finished and every queued item has been
\* consumed, all depth gauges return to 0 and /stats eventually reports
\* processing_active false.
C35_DrainedPipelineReportsIdle ==
    PipelineDrained ~> ~has_queued_items

\* C35 happens: the pipeline has drained without any failed statement and
\* /stats would still report processing_active.
C35_Witness ==
    /\ PipelineDrained
    /\ has_queued_items
    /\ files_committed = MaxItems

C28_FailedCommitEndsWriter ==
    [][/\ wpc = "flush" =>
            \/ wpc' \in {"flush", "fts"}
            \/ wpc' = "dead" /\ assets' = assets /\ files_committed' = files_committed
       /\ wpc = "fts" =>
            \/ wpc' \in {"fts", "count"}
            \/ wpc' = "dead" /\ fts' = fts /\ files_committed' = files_committed
       /\ wpc = "dead" =>
            /\ wpc' = "dead" /\ buf' = buf
            /\ assets' = assets /\ fts' = fts /\ files_committed' = files_committed
       /\ files_committed' # files_committed =>
            wpc = "count" /\ files_committed' = files_committed + wn]_vars

\* C28 happens: a commit has failed, the writer has exited, the counter
\* does not include the failed batch, and a later item waits in the channel.
C28_Witness ==
    /\ wpc = "dead"
    /\ db_q # <<>>
    /\ files_committed < nitems - Len(db_q)

(***************************************************************************)
(* Clear-all and reset-stats, next to Add requests and their scan tasks    *)
(* (AdminSpec). The catalog was filled by an earlier run of the program.   *)
(***************************************************************************)
\* The catalog found at start-up: one asset with its FTS row, counted by
\* init_files_committed.
PersistedAssets ==
    upsert_item({}, DbWriteItem(<<"r1", "x">>, Some(<<171>>), "image", 1024, 1,
                                SomeInt(640), SomeInt(480), NoInt)).rows

\* The catalog group at start-up over the rows an earlier run committed.
CatWith(rows) ==
    /\ assets = rows
    /\ fts = {r.id : r \in rows}
    /\ db_q = <<>>
    /\ buf = <<>>
    /\ fts_rows = <<>>
    /\ fts_pending = {}
    /\ wpc = "recv"
    /\ wn = 0
    /\ files_committed = Cardinality(rows)
    /\ thumb_q = <<>>
    /\ gauge_thumb = 0
    /\ del = [d \in Deleters |-> IdleDel]
    /\ nitems = 0
    /\ ndel = 0
    /\ thumb_attempted = {}
    /\ thumb_dropped = {}

CatPersisted == CatWith(PersistedAssets)

\* What clear-all and reset-stats leave alone in the catalog group.
AdminCatFrame ==
    UNCHANGED <<db_q, buf, fts_rows, fts_pending, wpc, wn, thumb_q, gauge_thumb,
                del, nitems, ndel, thumb_attempted, thumb_dropped>>

\* clear_all_data and reset_stats: any_scanning under the map's lock; 409 if set.
AdminCheck(s) ==
    /\ req[s].op \in {"clear", "reset"} /\ req[s].pc = "begin"
    /\ req' = IF AnyActive(path_scan_running, flag)
              THEN Respond(req, s, 409)
              ELSE [req EXCEPT ![s].pc = IF req[s].op = "clear" THEN "cleardb" ELSE "resetstats"]
    /\ UNCHANGED <<scan_running, path_scan_running, flag, scan_paths, last_scan_start, tasks, nreq>>
    /\ SupOnly

\* db::writer::clear_all_data in spawn_blocking: one transaction deletes the
\* FTS row of every asset id (each result discarded) and every asset.
ClearDb(s) ==
    /\ req[s].op = "clear" /\ req[s].pc = "cleardb"
    /\ ~WriterHoldsLock
    /\ \E ok \in SUBSET {r.id : r \in assets} :
        /\ fts' = fts \ ok
        /\ assets' = {}
    /\ req' = [req EXCEPT ![s].pc = "resetstats"]
    /\ UNCHANGED <<scan_running, path_scan_running, flag, scan_paths, last_scan_start, tasks, nreq>>
    /\ UNCHANGED files_committed
    /\ AdminCatFrame
    /\ UNCHANGED <<gpuVars, scanVars, otherVars>>

\* The pool or the transaction fails: 500, nothing cleared.
ClearDbFails(s) ==
    /\ req[s].op = "clear" /\ req[s].pc = "cleardb"
    /\ req' = Respond(req, s, 500)
    /\ UNCHANGED <<scan_running, path_scan_running, flag, scan_paths, last_scan_start, tasks, nreq>>
    /\ SupOnly

\* state.stats.reset_stats(): files_committed and last_scan_start, among
\* the statistics, are reset; 200.
ResetStats(s) ==
    /\ req[s].op \in {"clear", "reset"} /\ req[s].pc = "resetstats"
    /\ files_committed' = 0
    /\ last_scan_start' = FALSE
    /\ req' = Respond(req, s, 200)
    /\ UNCHANGED <<scan_running, path_scan_running, flag, scan_paths, tasks, nreq>>
    /\ UNCHANGED <<assets, fts>>
    /\ AdminCatFrame
    /\ UNCHANGED <<gpuVars, scanVars, otherVars>>

\* C11: clear-all and reset-stats are refused with 409 and change nothing
\* whenever any scan is running: every step of such a handler taken while a
\* per-root scan-running flag is set answers 409 and leaves the catalog and
\* the statistics as they were.
C11_AdminRefusedWhileScanning ==
    [][\A s \in Slots :
          (/\ req[s].op \in {"clear", "reset"}
           /\ req'[s] # req[s]
           /\ AnyActive(path_scan_running, flag))
              => (/\ req'[s].pc = "idle" /\ req'[s].status = 409
                  /\ assets' = assets /\ fts' = fts
                  /\ files_committed' = files_committed
                  /\ last_scan_start' = last_scan_start)]_vars

\* C11 happens: a request was refused while a scan task was running.
C11_Witness ==
    \E s \in Slots : /\ req[s].pc = "idle" /\ req[s].status = 409
                     /\ \E t \in TaskIds : tasks[t].pc = "scan" /\ flag[tasks[t].f]

AdminNext ==
    \/ \E s \in Slots : \E r \in Roots : Arrive(s, "add", r)
    \/ \E s \in Slots : \E op \in {"clear", "reset"} : Arrive(s, op, DefaultRoot)
    \/ \E s \in Slots : AddBegin(s)
    \/ \E s \in Slots : ReadWasScanning(s)
    \/ \E s \in Slots : GetOrCreateFlag(s)
    \/ \E s \in Slots : SwapRunning(s)
    \/ \E s \in Slots : StartScan(s)
    \/ \E t \in TaskIds : TaskStore(t)
    \/ \E t \in TaskIds : TaskAny(t)
    \/ \E t \in TaskIds : TaskFin(t)
    \/ \E s \in Slots : AdminCheck(s)
    \/ \E s \in Slots : ClearDb(s)
    \/ \E s \in Slots : ClearDbFails(s)
    \/ \E s \in Slots : ResetStats(s)

(***************************************************************************)
(* The pipeline in front of the writer: discover, skip gate, hash,         *)
(* metadata; driven by two scans of one unchanged tree, the second         *)
(* started once the first has fully committed.                             *)
(***************************************************************************)
ScanPaths == {<<"r1", "x">>, <<"r1", "y">>}
MimeTypes == {"image", "video", "other"}      \* what the mime type starts with
SHA256_IMAGE_LIMIT == 64 * 1024 * 1024
FileSizes == {1024, SHA256_IMAGE_LIMIT}

\* A file: what discovery reports of it, whether it can be read (hash_file
\* succeeds) and whether libvips / ffprobe get its dimensions and duration.
Files == [mime : MimeTypes, size_bytes : FileSizes, mtime_ns : {1},
          readable : BOOLEAN, probe_ok : BOOLEAN]

NoSnap == [hash_jobs |-> 0, files_committed |-> 0, assets |-> {}, dropped |-> {}]

ScanInit ==
    /\ tree \in [ScanPaths -> Files]
    /\ scan_no = 1
    /\ to_emit = ScanPaths
    /\ disc_q = <<>>
    /\ hash_q = <<>>
    /\ meta_q = <<>>
    /\ hash_jobs = 0
    /\ snap = NoSnap

\* The pipeline at rest, for the specifications of the other parts.
ScanOff ==
    /\ tree = [p \in ScanPaths |-> [mime |-> "image", size_bytes |-> 1024, mtime_ns |-> 1,
                                    readable |-> TRUE, probe_ok |-> TRUE]]
    /\ scan_no = 3
    /\ to_emit = {}
    /\ disc_q = <<>>
    /\ hash_q = <<>>
    /\ meta_q = <<>>
    /\ hash_jobs = 0
    /\ snap = NoSnap

\* The job the forwarder builds from a DiscoverItem.
HashJob(p) ==
    [path |-> p, mime |-> tree[p].mime, size_bytes |-> tree[p].size_bytes,
     mtime_ns |-> tree[p].mtime_ns]

\* check_file_unchanged: the rows with this path, mtime_ns and size_bytes.
check_file_unchanged(rows, job) ==
    {r \in rows : r.path = job.path /\ r.mtime_ns = job.mtime_ns /\ r.size_bytes = job.size_bytes}

\* check_metadata_complete
check_metadata_complete(row, mime) ==
    IF mime = "image" THEN row.width.some /\ row.height.some
    ELSE IF mime = "video" THEN row.duration_ms.some \/ (row.width.some /\ row.height.some)
    ELSE FALSE

\* A gate that never skips: a fully indexed file gets its metadata again.
SkipGate_never_skips(rows, job) ==
    LET found == check_file_unchanged(rows, job) IN
    IF found = {} THEN "hash"
    ELSE IF (CHOOSE r \in found : TRUE).sha.some THEN "meta" ELSE "hash"

\* A gate that does not look at the stored SHA-256.
SkipGate_ignores_sha(rows, job) ==
    LET found == check_file_unchanged(rows, job) IN
    IF found = {} THEN "hash"
    ELSE IF check_metadata_complete(CHOOSE r \in found : TRUE, job.mime) THEN "skip" ELSE "meta"

\* start_forwarder's decision for an image or video: "skip" (continue),
\* "meta" (MetaJob with the stored hashes, no hashing) or "hash" (HashJob).
SkipGate(rows, job) ==
    LET found == check_file_unchanged(rows, job) IN
    IF found = {} THEN "hash"
    ELSE LET row == CHOOSE r \in found : TRUE IN
         IF row.sha.some
         THEN IF check_metadata_complete(row, job.mime) THEN "skip" ELSE "meta"
         ELSE "hash"

\* hash_file: Err when the file cannot be opened or read, else the xxh3
\* digest and, for a video or a file under 64 MiB, the SHA-256 digest.
hash_file(f) ==
    LET is_video == f.mime = "video"
        calculate_sha256 == is_video \/ f.size_bytes < SHA256_IMAGE_LIMIT IN
    [ok |-> f.readable, xxh |-> 77,
     sha |-> IF calculate_sha256 THEN Some(<<171>>) ELSE None]

\* A worker that keeps the digests of a failed hash.
HashOutcome_keeps_digest(r) == [xxh64 |-> SomeInt(r.xxh), sha256 |-> r.sha]

\* The hash worker's match on the result: let mut xxh64 = 0i64; let mut
\* sha256 = None; overwritten by Ok(Ok((x, s))) only; xxh64: Some(xxh64).
HashOutcome(r) ==
    IF r.ok THEN [xxh64 |-> SomeInt(r.xxh), sha256 |-> r.sha]
    ELSE [xxh64 |-> SomeInt(0), sha256 |-> None]

\* MetaJob { job, xxh64, sha256 }
MetaJob(job, h) == [job |-> job, xxh64 |-> h.xxh64, sha256 |-> h.sha256]

\* The metadata worker's width, height and duration_ms.
Probe(f) ==
    IF f.mime = "image"
    THEN IF f.probe_ok THEN [width |-> SomeInt(640), height |-> SomeInt(480), duration_ms |-> NoInt]
         ELSE [width |-> NoInt, height |-> NoInt, duration_ms |-> NoInt]
    ELSE IF f.mime = "video" /\ f.probe_ok
         THEN [width |-> SomeInt(640), height |-> SomeInt(480), duration_ms |-> SomeInt(1000)]
         ELSE [width |-> NoInt, height |-> NoInt, duration_ms |-> NoInt]

\* Capacities of the bounded channels between the stages.
DiscQueueCap == 1    \* discover channel (100_000 in the source)
HashQueueCap == 1    \* hash channel (4_096 in the source)
MetaQueueCap == 1    \* metadata channel (4_096 in the source)

\* A sender that does not wait for room: the item is lost when the channel
\* is full.
send_or_drop(q, x, cap) ==
    [ready |-> TRUE, q |-> IF Len(q) < cap THEN Append(q, x) ELSE q]

\* tokio::sync::mpsc::Sender::send(x).await on a channel of capacity cap: it
\* completes only once the channel has room, and then x is in the channel.
send(q, x, cap) ==
    [ready |-> Len(q) < cap, q |-> Append(q, x)]

\* scan_bfs emits a file of the tree on the discover channel.
Discover(p) ==
    /\ scan_no \in {1, 2}
    /\ p \in to_emit
    /\ send(disc_q, p, DiscQueueCap).ready
    /\ to_emit' = to_emit \ {p}
    /\ disc_q' = send(disc_q, p, DiscQueueCap).q
    /\ UNCHANGED <<tree, scan_no, hash_q, meta_q, hash_jobs, snap>>
    /\ UNCHANGED <<supVars, gpuVars, catVars, otherVars>>

\* start_forwarder, one item: files that are neither image nor video are
\* dropped, the others go through the skip gate. The forwarder holds the
\* item while its send waits for room; here the item waits in the discover
\* channel instead.
Forward ==
    /\ disc_q # <<>>
    /\ disc_q' = Tail(disc_q)
    /\ LET job == HashJob(Head(disc_q))
           gate == IF job.mime \in {"image", "video"} THEN SkipGate(assets, job) ELSE "skip"
           to_hash == send(hash_q, job, HashQueueCap)
           \* the hashes stored in the row; the stored xxh64 is the digest of
           \* the unchanged file
           to_meta == send(meta_q,
                           MetaJob(job, [xxh64 |-> SomeInt(hash_file(tree[job.path]).xxh),
                                         sha256 |-> (CHOOSE r \in check_file_unchanged(assets, job) : TRUE).sha]),
                           MetaQueueCap) IN
        /\ gate = "hash" => to_hash.ready
        /\ gate = "meta" => to_meta.ready
        /\ hash_q' = IF gate = "hash" THEN to_hash.q ELSE hash_q
        /\ hash_jobs' = IF gate = "hash" THEN hash_jobs + 1 ELSE hash_jobs
        /\ meta_q' = IF gate = "meta" THEN to_meta.q ELSE meta_q
    /\ UNCHANGED <<tree, scan_no, to_emit, snap>>
    /\ UNCHANGED <<supVars, gpuVars, catVars, otherVars>>

\* A hash worker, one job: hash_file, then the MetaJob is sent whatever the
\* outcome, and the worker receives again.
HashWorker ==
    /\ hash_q # <<>>
    /\ hash_q' = Tail(hash_q)
    /\ LET job == Head(hash_q)
           out == send(meta_q, MetaJob(job, HashOutcome(hash_file(tree[job.path]))),
                       MetaQueueCap) IN
        /\ out.ready
        /\ meta_q' = out.q
    /\ UNCHANGED <<tree, scan_no, to_emit, disc_q, hash_jobs, snap>>
    /\ UNCHANGED <<supVars, gpuVars, catVars, otherVars>>

\* A metadata worker: the DbWriteItem, sent on the db-write channel.
MetaWorker ==
    /\ meta_q # <<>>
    /\ meta_q' = Tail(meta_q)
    /\ LET m == Head(meta_q)
           pr == Probe(tree[m.job.path])
           out == send(db_q, DbWriteItem(m.job.path, m.sha256, m.job.mime, m.job.size_bytes,
                                         m.job.mtime_ns, pr.width, pr.height, pr.duration_ms),
                       DbQueueCap) IN
        /\ out.ready
        /\ db_q' = out.q
    /\ UNCHANGED <<tree, scan_no, to_emit, disc_q, hash_q, hash_jobs, snap>>
    /\ UNCHANGED <<supVars, gpuVars, otherVars>>
    /\ UNCHANGED <<assets, fts, buf, fts_rows, fts_pending, wpc, wn, files_committed,
                   thumb_q, gauge_thumb, del, nitems, ndel, thumb_attempted, thumb_dropped>>

\* Every file of the scan has been emitted and has left the pipeline, and
\* the writer has committed what it received.
Drained ==
    /\ to_emit = {}
    /\ disc_q = <<>> /\ hash_q = <<>> /\ meta_q = <<>> /\ db_q = <<>>
    /\ buf = <<>> /\ wpc = "recv"

\* The first scan has fully committed: the same tree is scanned again.
StartSecondScan ==
    /\ scan_no = 1
    /\ Drained
    /\ scan_no' = 2
    /\ to_emit' = ScanPaths
    /\ snap' = [hash_jobs |-> hash_jobs, files_committed |-> files_committed, assets |-> assets,
                dropped |-> thumb_dropped]
    /\ UNCHANGED <<tree, disc_q, hash_q, meta_q, hash_jobs>>
    /\ UNCHANGED <<supVars, gpuVars, catVars, otherVars>>

\* The second scan has drained.
FinishSecondScan ==
    /\ scan_no = 2
    /\ Drained
    /\ scan_no' = 3
    /\ UNCHANGED <<tree, to_emit, disc_q, hash_q, meta_q, hash_jobs, snap>>
    /\ UNCHANGED <<supVars, gpuVars, catVars, otherVars>>

(***************************************************************************)
(* Claims about re-scanning (checked under ScanSpec).                      *)
(***************************************************************************)
\* The second scan has, so far, sent no hash job and left files_committed
\* and the number of catalog rows as they were when it began.
NothingSinceSecondScanBegan ==
    /\ hash_jobs = snap.hash_jobs
    /\ files_committed = snap.files_committed
    /\ Cardinality(assets) = Cardinality(snap.assets)

\* Every catalog row had a SHA-256 and complete metadata when the second scan began.
RowsComplete ==
    \A r \in snap.assets : r.sha.some /\ check_metadata_complete(r, r.mime)

\* C7 as stated: a second scan of an unchanged tree whose first scan has
\* fully committed sends no hash job and leaves files_committed and the
\* catalog row count unchanged.
C7_RescanDoesNothing ==
    scan_no \in {2, 3} => NothingSinceSecondScanBegan

\* Where the skip gate does elide the whole second scan: every catalog row
\* has a SHA-256 and complete metadata after the first scan.
RescanOfCompleteRowsDoesNothing ==
    (scan_no \in {2, 3} /\ RowsComplete) => NothingSinceSecondScanBegan

\* C7 happens: the first scan has committed both files and the second scan
\* of the same tree has drained.
C7_Witness ==
    scan_no = 3 /\ Cardinality(snap.assets) = 2 /\ snap.files_committed = 2

\* The item of file p is in one of the channels from discovery to the
\* writer, or in the writer's buffer.
InFlight(p) ==
    \/ \E i \in DOMAIN disc_q : disc_q[i] = p
    \/ \E i \in DOMAIN hash_q : hash_q[i].path = p
    \/ \E i \in DOMAIN meta_q : meta_q[i].job.path = p
    \/ \E i \in DOMAIN db_q : db_q[i].path = p
    \/ \E i \in DOMAIN buf : buf[i].path = p

\* C23: on every path from discovery to the catalog writer a producer that
\* faces a full channel waits and never drops: during the first scan every
\* image or video that discovery has emitted is still in flight or has its
\* catalog row.
C23_NoItemDropped ==
    scan_no = 1 =>
        \A p \in ScanPaths \ to_emit :
            tree[p].mime \in {"image", "video"}
                => (InFlight(p) \/ \E r \in assets : r.path = p)

\* C23 happens: during the first scan the db-write channel is full while a
\* metadata job waits to be sent on it, and the item that fills it belongs
\* to a file that has no catalog row yet.
C23_Witness ==
    /\ scan_no = 1
    /\ Len(db_q) = DbQueueCap /\ meta_q # <<>>
    /\ \A r \in assets : r.path # db_q[1].path

\* The forwarder takes the item at the head of the discover channel, an
\* image or a video.
ForwardsHead ==
    /\ disc_q # <<>> /\ disc_q' = Tail(disc_q)
    /\ tree[Head(disc_q)].mime \in {"image", "video"}

\* The catalog has a row with the item's path, mtime_ns and size_bytes, a
\* SHA-256 and complete metadata.
FullyIndexed(p) ==
    \E r \in assets :
        /\ r.path = p /\ r.mtime_ns = tree[p].mtime_ns /\ r.size_bytes = tree[p].size_bytes
        /\ r.sha.some
        /\ check_metadata_complete(r, tree[p].mime)

\* The catalog's row of the path has no SHA-256.
RowWithoutSha(p) == \E r \in assets : r.path = p /\ ~r.sha.some

\* C29: an item whose row matches (path, mtime_ns, size_bytes) with a
\* SHA-256 and complete metadata produces no hash job, no metadata job and
\* no catalog write, and changes no counter or downstream gauge.
C29_SkippedItemChangesNothing ==
    [][(ForwardsHead /\ FullyIndexed(Head(disc_q)))
          => /\ hash_q' = hash_q /\ meta_q' = meta_q /\ hash_jobs' = hash_jobs
             /\ UNCHANGED catVars]_vars

\* C29 happens: the second scan has put both files, each fully indexed by
\* the first, through the gate, and nothing is in flight or was counted.
C29_Witness ==
    /\ scan_no = 2 /\ to_emit = {} /\ disc_q = <<>>
    /\ \A p \in ScanPaths : FullyIndexed(p)
    /\ hash_q = <<>> /\ meta_q = <<>> /\ db_q = <<>> /\ buf = <<>>
    /\ hash_jobs = snap.hash_jobs /\ files_committed = snap.files_committed

\* C30: an item whose row has no SHA-256 goes to the hash queue, whether or
\* not the row matches its mtime_ns and size_bytes: it is never skipped and
\* never sent straight to the metadata stage.
C30_MissingShaIsHashed ==
    [][(ForwardsHead /\ RowWithoutSha(Head(disc_q)))
          => /\ hash_q' = Append(hash_q, HashJob(Head(disc_q)))
             /\ meta_q' = meta_q]_vars

\* C30 happens: in the second scan a file whose row has no SHA-256, but
\* complete metadata and the file's mtime_ns and size_bytes, has a hash job.
C30_Witness ==
    /\ scan_no = 2
    /\ \E i \in DOMAIN hash_q : \E r \in assets :
          /\ r.path = hash_q[i].path /\ ~r.sha.some
          /\ r.mtime_ns = hash_q[i].mtime_ns /\ r.size_bytes = hash_q[i].size_bytes
          /\ check_metadata_complete(r, hash_q[i].mime)

\* C31: a thumbnail job dropped because the thumbnail channel was full is
\* enqueued again by the next scan of the same unchanged file: once the
\* second scan has drained, no file whose job had been dropped when it
\* began is still without an enqueued job.
C31_DroppedJobRequeued ==
    scan_no = 3 => snap.dropped \cap thumb_dropped = {}

\* C31 happens: a job of the first scan was dropped, the second scan of the
\* unchanged tree has drained without hashing or committing anything, and
\* the job has not been enqueued again.
C31_Witness ==
    /\ scan_no = 3
    /\ snap.dropped \cap thumb_dropped # {}
    /\ hash_jobs = snap.hash_jobs /\ files_committed = snap.files_committed
    /\ thumb_q = <<>>

\* C37: for every hash job received, exactly one metadata job is emitted
\* whatever the hashing outcome: every step that takes a job from the hash
\* channel appends one MetaJob for that job to the metadata channel; when
\* hashing failed it carries xxh64 = 0 and no SHA-256, otherwise a non-zero
\* digest. The worker keeps no state, so it takes the next job as before.
C37_OneMetaJobPerHashJob ==
    [][(hash_q # <<>> /\ hash_q' = Tail(hash_q))
          => LET job == Head(hash_q)
                 m == meta_q'[Len(meta_q')] IN
             /\ meta_q' = Append(meta_q, m)
             /\ m.job = job
             /\ m.xxh64.some
             /\ IF tree[job.path].readable
                THEN m.xxh64.v # 0
                ELSE m.xxh64.v = 0 /\ ~m.sha256.some]_vars

\* C37 happens: in the first scan the hash of one file failed and its
\* MetaJob went on to the later stages, and the worker has since hashed the
\* other file, whose MetaJob is in the metadata channel.
C37_Witness ==
    /\ scan_no = 1 /\ hash_jobs = 2 /\ hash_q = <<>>
    /\ meta_q # <<>>
    /\ tree[Head(meta_q).job.path].readable /\ Head(meta_q).xxh64.v # 0
    /\ \E p \in ScanPaths \ {Head(meta_q).job.path} :
          /\ ~tree[p].readable
          /\ \/ \E i \in DOMAIN db_q : db_q[i].path = p /\ ~db_q[i].sha.some
             \/ \E i \in DOMAIN buf : buf[i].path = p /\ ~buf[i].sha.some
             \/ \E r \in assets : r.path = p /\ ~r.sha.some

ScanNext ==
    \/ \E p \in ScanPaths : Discover(p)
    \/ Forward
    \/ HashWorker
    \/ MetaWorker
    \/ StartSecondScan
    \/ FinishSecondScan
    \/ WriterRecv
    \/ WriterTimeout
    \/ CommitAssets
    \/ FtsInsert
    \/ CommitFts
    \/ CountCommitted
    \/ ThumbRecv

(***************************************************************************)
(* The GPU circuit breaker.                                                *)
(***************************************************************************)
RETRY_INTERVAL == 10
MaxJobs == 18       \* video jobs started in one run
Workers == {1, 2}

GpuInit ==
    /\ tracker = [consecutive_failures |-> 0, auto_disabled |-> FALSE,
                  cpu_jobs_since_last_retry |-> 0]
    /\ gpu_stats = [jobs_gpu |-> 0, jobs_cpu |-> 0]
    /\ cfg_enabled \in BOOLEAN
    /\ worker = [w \in Workers |-> "idle"]
    /\ njobs = 0
    /\ streak = 0
    /\ trips = 0
    /\ retried = FALSE

\* get_gpu_config granting the retry without starting a new retry window.
get_gpu_config_keeps_window(tr, enabled) ==
    IF tr.auto_disabled /\ enabled
    THEN IF tr.cpu_jobs_since_last_retry >= RETRY_INTERVAL
         THEN [enabled |-> TRUE, tracker |-> tr]
         ELSE [enabled |-> FALSE, tracker |-> tr]
    ELSE [enabled |-> enabled, tracker |-> tr]

\* get_gpu_config: the configuration this caller gets, and the tracker after.
get_gpu_config(tr, enabled) ==
    IF tr.auto_disabled /\ enabled
    THEN IF tr.cpu_jobs_since_last_retry >= RETRY_INTERVAL
         THEN [enabled |-> TRUE, tracker |-> [tr EXCEPT !.cpu_jobs_since_last_retry = 0]]
         ELSE [enabled |-> FALSE, tracker |-> tr]
    ELSE [enabled |-> enabled, tracker |-> tr]

\* increment_gpu_job without the reset of consecutive_failures.
increment_gpu_job_keeps_count(tr) ==
    [tr EXCEPT !.auto_disabled = FALSE, !.cpu_jobs_since_last_retry = 0]

\* increment_gpu_job, on the tracker.
increment_gpu_job(tr) ==
    [consecutive_failures |-> 0, auto_disabled |-> FALSE, cpu_jobs_since_last_retry |-> 0]

\* increment_cpu_job, on the tracker.
increment_cpu_job(tr) ==
    IF tr.auto_disabled
    THEN [tr EXCEPT !.cpu_jobs_since_last_retry = tr.cpu_jobs_since_last_retry + 1]
    ELSE tr

\* record_gpu_failure with the threshold at two.
record_gpu_failure_at_two(tr) ==
    LET n == tr.consecutive_failures + 1 IN
    [tr EXCEPT !.consecutive_failures = n,
               !.auto_disabled = IF n >= 2 /\ ~tr.auto_disabled THEN TRUE ELSE tr.auto_disabled]

\* record_gpu_failure.
record_gpu_failure(tr) ==
    LET n == tr.consecutive_failures + 1 IN
    [tr EXCEPT !.consecutive_failures = n,
               !.auto_disabled = IF n >= 3 /\ ~tr.auto_disabled THEN TRUE ELSE tr.auto_disabled]

\* A video job starts: video_make_thumb or the transcode handler asks for the
\* configuration and takes the GPU path or the CPU path. A GPU run granted
\* while the breaker is auto-disabled is the periodic retry ("retry"); it runs
\* as any other GPU run.
OnGpu(w) == worker[w] \in {"gpu", "retry"}

\* The job is on the CPU path: told so by the configuration ("cpu"), or
\* falling back after its GPU run failed ("retry_cpu" after a periodic retry).
OnCpu(w) == worker[w] \in {"cpu", "retry_cpu"}

JobStart(w) ==
    /\ worker[w] = "idle"
    /\ njobs < MaxJobs
    /\ njobs' = njobs + 1
    /\ LET c == get_gpu_config(tracker, cfg_enabled) IN
        /\ tracker' = c.tracker
        /\ worker' = [worker EXCEPT ![w] = IF ~c.enabled THEN "cpu"
                                           ELSE IF tracker.auto_disabled THEN "retry"
                                           ELSE "gpu"]
    /\ UNCHANGED <<gpu_stats, cfg_enabled, streak, trips, retried>>
    /\ GpuOnly

\* The GPU run succeeds: increment_gpu_job.
GpuSuccess(w) ==
    /\ OnGpu(w)
    /\ tracker' = increment_gpu_job(tracker)
    /\ retried' = (retried \/ (worker[w] = "retry" /\ tracker.auto_disabled))
    /\ gpu_stats' = [gpu_stats EXCEPT !.jobs_gpu = gpu_stats.jobs_gpu + 1]
    /\ worker' = [worker EXCEPT ![w] = "idle"]
    /\ streak' = 0
    /\ UNCHANGED <<cfg_enabled, njobs, trips>>
    /\ GpuOnly

\* The GPU run exits non-zero, errors or times out: record_gpu_failure, then
\* the CPU fallback.
GpuFailure(w) ==
    /\ OnGpu(w)
    /\ tracker' = record_gpu_failure(tracker)
    /\ worker' = [worker EXCEPT ![w] = IF worker[w] = "retry" THEN "retry_cpu" ELSE "cpu"]
    /\ streak' = streak + 1
    /\ trips' = IF ~tracker.auto_disabled /\ tracker'.auto_disabled THEN trips + 1 ELSE trips
    /\ UNCHANGED <<gpu_stats, cfg_enabled, njobs, retried>>
    /\ GpuOnly

\* The CPU run succeeds: increment_cpu_job.
CpuSuccess(w) ==
    /\ OnCpu(w)
    /\ tracker' = increment_cpu_job(tracker)
    /\ gpu_stats' = [gpu_stats EXCEPT !.jobs_cpu = gpu_stats.jobs_cpu + 1]
    /\ worker' = [worker EXCEPT ![w] = "idle"]
    /\ UNCHANGED <<cfg_enabled, njobs, streak, trips, retried>>
    /\ GpuOnly

\* Every CPU attempt fails: the job ends with an error, nothing is counted.
CpuFailure(w) ==
    /\ OnCpu(w)
    /\ worker' = [worker EXCEPT ![w] = "idle"]
    /\ UNCHANGED <<tracker, gpu_stats, cfg_enabled, njobs, streak, trips, retried>>
    /\ GpuOnly

\* GET /performance (and the GPU status handler): get_gpu_config() and
\* get_gpu_stats() are called to report the acceleration in use; no job is
\* started.
Performance ==
    /\ tracker' = get_gpu_config(tracker, cfg_enabled).tracker
    /\ UNCHANGED <<gpu_stats, cfg_enabled, worker, njobs, streak, trips, retried>>
    /\ GpuOnly

(***************************************************************************)
(* Claims about the GPU circuit breaker (checked under GpuSpec).           *)
(***************************************************************************)
\* The step records a GPU failure; the step records a GPU success.
FailureRecorded == streak' = streak + 1
SuccessRecorded == gpu_stats'.jobs_gpu = gpu_stats.jobs_gpu + 1

\* C8: the breaker goes from enabled to auto-disabled exactly in the step that
\* records the third consecutive GPU failure (two recorded since the last GPU
\* success, and this one), in no other step, and a GPU success sets the
\* consecutive-failure count back to zero.
C8_DisabledOnThirdFailure ==
    [][/\ (~tracker.auto_disabled /\ tracker'.auto_disabled)
              <=> (FailureRecorded /\ streak = 2)
       /\ SuccessRecorded => tracker'.consecutive_failures = 0
       /\ ~tracker.auto_disabled => tracker.consecutive_failures = streak]_vars

\* C8 happens: the breaker is auto-disabled by a third consecutive failure
\* that came after an earlier GPU success had reset the count.
C8_Witness ==
    tracker.auto_disabled /\ streak = 3 /\ trips = 1 /\ gpu_stats.jobs_gpu >= 1

\* C9: a GPU job that was granted as the periodic retry of an auto-disabled
\* breaker and succeeds leaves the GPU enabled and the failure counters at
\* zero, and every auto-disable after the first again comes with the third
\* failure recorded since the last success.
C9_RetrySuccessReenables ==
    [][/\ (SuccessRecorded /\ \E w \in Workers : worker[w] = "retry" /\ worker'[w] = "idle")
              => /\ ~tracker'.auto_disabled
                 /\ tracker'.consecutive_failures = 0
                 /\ tracker'.cpu_jobs_since_last_retry = 0
       /\ (trips >= 1 /\ trips' = trips + 1)
              => (streak' = 3 /\ tracker'.consecutive_failures = 3)]_vars

\* C9 happens: a retry succeeded and re-enabled the GPU, and the breaker has
\* been auto-disabled a second time since.
C9_Witness ==
    tracker.auto_disabled /\ retried /\ trips = 2

C39_ReportingLeavesBreaker ==
    [][worker' = worker => tracker' = tracker]_vars

\* C39 happens: the breaker tripped on the first three GPU jobs and no GPU
\* run has been granted since (no success, no fourth failure, no job under
\* way), at least ten CPU jobs have been counted since it tripped, and the
\* count is below ten again: a reporting read has consumed the retry.
C39_Witness ==
    /\ tracker.auto_disabled
    /\ tracker.consecutive_failures = 3 /\ gpu_stats.jobs_gpu = 0
    /\ gpu_stats.jobs_cpu >= RETRY_INTERVAL + 2
    /\ tracker.cpu_jobs_since_last_retry < RETRY_INTERVAL
    /\ \A w \in Workers : worker[w] = "idle"

GpuNext ==
    \/ Performance
    \/ \E w \in Workers : JobStart(w)
    \/ \E w \in Workers : GpuSuccess(w)
    \/ \E w \in Workers : GpuFailure(w)
    \/ \E w \in Workers : CpuSuccess(w)
    \/ \E w \in Workers : CpuFailure(w)

(***************************************************************************)
(* Derived artifacts on disk: the thumbnail workers that write them and    *)
(* the handlers that read them (ThumbSpec). One SHA-256 is followed; two   *)
(* assets with the same content give two jobs for the same paths.          *)
(***************************************************************************)
MaxThumbJobs == 2
ThumbPaths == {"thumb", "preview"}              \* <sha>-256.webp, <sha>-1600.webp
TranscodePaths == {"mp4", "webm"}               \* <sha>-transcoded.mp4 / .webm
DerivedPaths == ThumbPaths \cup TranscodePaths

IdleThumbWorker == [pc |-> "idle", p1_exists |-> FALSE, p2_exists |-> FALSE]
NotSeen == [path |-> "none", state |-> "none"]
IdleVideo == [pc |-> "idle", enc |-> 0, used_gpu |-> FALSE, target |-> "none",
              opened |-> FALSE, resp |-> "none", state |-> "none", ended |-> "none"]

ThumbInit ==
    /\ files = [f \in DerivedPaths |-> "absent"]
    /\ tw = [w \in Workers |-> IdleThumbWorker]
    /\ nthumb = 0
    /\ seen = NotSeen

VideoOff ==
    /\ vreq = [s \in Slots |-> IdleVideo]
    /\ nvid = 0

DerInit == ThumbInit /\ VideoOff

coreVars == <<supVars, gpuVars, catVars, scanVars, watchVars, permVars, rangeVars, albumVars, closeVars, gaugeVars>>

\* The path a worker at pc is producing.
ThumbTarget(pc) == IF pc \in {"p1", "p1w"} THEN "thumb" ELSE "preview"

\* Where a worker goes once it is done with the path of pc.
AfterThumb(w, pc) ==
    IF pc \in {"p1", "p1w"} /\ ~tw[w].p2_exists THEN "p2" ELSE "idle"

\* A worker receives a job: p1.exists(), p2.exists(); nothing to do if both.
ThumbJobRecv(w) ==
    /\ tw[w].pc = "idle"
    /\ nthumb < MaxThumbJobs
    /\ nthumb' = nthumb + 1
    /\ LET p1_exists == files["thumb"] # "absent"
           p2_exists == files["preview"] # "absent" IN
        tw' = [tw EXCEPT ![w] = [pc |-> IF ~p1_exists THEN "p1"
                                        ELSE IF ~p2_exists THEN "p2" ELSE "idle",
                                 p1_exists |-> p1_exists, p2_exists |-> p2_exists]]
    /\ UNCHANGED <<files, seen, vreq, nvid>>
    /\ UNCHANGED coreVars

\* image_make_thumb: the source cannot be loaded or scaled; nothing is written.
ThumbLoadFails(w) ==
    /\ tw[w].pc \in {"p1", "p2"}
    /\ tw' = [tw EXCEPT ![w].pc = AfterThumb(w, tw[w].pc)]
    /\ UNCHANGED <<files, nthumb, seen, vreq, nvid>>
    /\ UNCHANGED coreVars

\* image_write_to_file(dst) begins: the destination itself is created.
ThumbOpen(w) ==
    /\ tw[w].pc \in {"p1", "p2"}
    /\ files' = [files EXCEPT ![ThumbTarget(tw[w].pc)] = "empty"]
    /\ tw' = [tw EXCEPT ![w].pc = IF tw[w].pc = "p1" THEN "p1w" ELSE "p2w"]
    /\ UNCHANGED <<nthumb, seen, vreq, nvid>>
    /\ UNCHANGED coreVars

\* The write goes on: part of the image is in the file.
ThumbWrite(w) ==
    /\ tw[w].pc \in {"p1w", "p2w"}
    /\ files[ThumbTarget(tw[w].pc)] = "empty"
    /\ files' = [files EXCEPT ![ThumbTarget(tw[w].pc)] = "partial"]
    /\ UNCHANGED <<tw, nthumb, seen, vreq, nvid>>
    /\ UNCHANGED coreVars

\* The write ends: Ok, or an error after which the partial file is removed
\* if it exists.
ThumbWriteEnd(w, ok) ==
    /\ tw[w].pc \in {"p1w", "p2w"}
    /\ files' = [files EXCEPT ![ThumbTarget(tw[w].pc)] = IF ok THEN "complete" ELSE "absent"]
    /\ tw' = [tw EXCEPT ![w].pc = AfterThumb(w, tw[w].pc)]
    /\ UNCHANGED <<nthumb, seen, vreq, nvid>>
    /\ UNCHANGED coreVars

\* serve_derived: tokio::fs::read(path); 200 with the bytes read, or 404.
ServeDerived(path) ==
    /\ seen' = [path |-> path, state |-> files[path]]
    /\ UNCHANGED <<files, tw, nthumb, vreq, nvid>>
    /\ UNCHANGED coreVars

\* C12: a reader of a derived-artifact path observes either the complete
\* file or no file, never a partially written one.
C12_ReaderSeesCompleteOrNothing ==
    seen.state \in {"none", "absent", "complete"}

\* C12 happens: a thumbnail was read while a worker was producing the preview.
C12_Witness ==
    /\ seen = [path |-> "thumb", state |-> "complete"]
    /\ \E w \in Workers : tw[w].pc = "p2w"

ThumbNext ==
    \/ \E w \in Workers : ThumbJobRecv(w)
    \/ \E w \in Workers : ThumbLoadFails(w)
    \/ \E w \in Workers : ThumbOpen(w)
    \/ \E w \in Workers : ThumbWrite(w)
    \/ \E w \in Workers : \E ok \in BOOLEAN : ThumbWriteEnd(w, ok)
    \/ \E path \in ThumbPaths : ServeDerived(path)

(***************************************************************************)
(* GET /asset/{id}/video for a video that needs transcoding, and the       *)
(* ffmpeg runs it starts (TranscodeSpec).                                   *)
(***************************************************************************)
MaxVideoGets == 2
\* The container of each entry of transcode_video_to_mp4_cpu's encoder_configs.
ENCODER_CONTAINERS == <<"mp4", "mp4", "mp4", "mp4", "webm", "webm", "mp4">>
\* How an ffmpeg run ends: exit status 0, another status, or the timeout.
FfmpegOutcomes == {"ok", "nonzero", "timeout"}

ThumbOff ==
    /\ tw = [w \in Workers |-> IdleThumbWorker]
    /\ nthumb = 0
    /\ seen = NotSeen

VideoInit ==
    /\ files = [f \in DerivedPaths |-> "absent"]
    /\ vreq = [s \in Slots |-> IdleVideo]
    /\ nvid = 0

\* metadata(path): is_file() && len() > 0
HasContent(st) == st \in {"partial", "complete"}

\* The handler answers: resp is what it serves ("original", "mp4", "webm",
\* "500", "404") and state the state of the file served.
VideoRespond(rq, v, resp, st) ==
    [rq EXCEPT ![v] = [IdleVideo EXCEPT !.resp = resp, !.state = st, !.ended = rq[v].ended]]

\* What the GPU group does not change in a transcode.
VideoGpuFrame == UNCHANGED <<cfg_enabled, worker, njobs, streak, trips, retried>>
VideoFrame ==
    /\ UNCHANGED <<tw, nthumb, seen>>
    /\ UNCHANGED <<supVars, catVars, scanVars, watchVars, permVars, rangeVars, albumVars, closeVars, gaugeVars>>

\* stream_video, up to the choice of the file: a browser-compatible video
\* or one without SHA-256 is served as it is; the others go to the cache.
VideoArrive(v, kind) ==
    /\ vreq[v].pc = "idle"
    /\ nvid < MaxVideoGets
    /\ nvid' = nvid + 1
    /\ vreq' = IF kind = "transcode"
               THEN [vreq EXCEPT ![v] = [IdleVideo EXCEPT !.pc = "cache"]]
               ELSE [vreq EXCEPT ![v] = [IdleVideo EXCEPT !.resp = "original"]]
    /\ UNCHANGED <<files, tracker, gpu_stats>>
    /\ VideoGpuFrame /\ VideoFrame

\* fs::metadata(transcoded_mp4).is_ok(), else fs::metadata(transcoded_webm).is_ok().
VideoCacheCheck(v) ==
    /\ vreq[v].pc = "cache"
    /\ vreq' = IF files["mp4"] # "absent"
               THEN [vreq EXCEPT ![v].pc = "serve", ![v].target = "mp4"]
               ELSE IF files["webm"] # "absent"
               THEN [vreq EXCEPT ![v].pc = "serve", ![v].target = "webm"]
               ELSE [vreq EXCEPT ![v].pc = "t1"]
    /\ UNCHANGED <<files, nvid, tracker, gpu_stats>>
    /\ VideoGpuFrame /\ VideoFrame

\* transcode_video_to_mp4: get_gpu_config, then ffmpeg -y ... <dst> is started.
TranscodeStart(v) ==
    /\ vreq[v].pc = "t1"
    /\ LET c == get_gpu_config(tracker, cfg_enabled) IN
        /\ tracker' = c.tracker
        /\ vreq' = [vreq EXCEPT ![v].pc = "t1run", ![v].used_gpu = c.enabled,
                                ![v].target = "mp4", ![v].opened = FALSE]
    /\ UNCHANGED <<files, nvid, gpu_stats>>
    /\ VideoGpuFrame /\ VideoFrame

\* ffmpeg creates (-y: truncates) its output file.
FfmpegOpen(v) ==
    /\ vreq[v].pc \in {"t1run", "crun"} /\ ~vreq[v].opened
    /\ files' = [files EXCEPT ![vreq[v].target] = "empty"]
    /\ vreq' = [vreq EXCEPT ![v].opened = TRUE]
    /\ UNCHANGED <<nvid, tracker, gpu_stats>>
    /\ VideoGpuFrame /\ VideoFrame

\* ffmpeg writes part of its output.
FfmpegWrite(v) ==
    /\ vreq[v].pc \in {"t1run", "crun"} /\ vreq[v].opened
    /\ files[vreq[v].target] = "empty"
    /\ files' = [files EXCEPT ![vreq[v].target] = "partial"]
    /\ UNCHANGED <<vreq, nvid, tracker, gpu_stats>>
    /\ VideoGpuFrame /\ VideoFrame

\* The file at the run's output path when ffmpeg has exited with status 0.
AtExitOk(v) ==
    IF vreq[v].opened /\ files[vreq[v].target] = "partial" THEN "complete"
    ELSE files[vreq[v].target]

\* How an attempt ends for the handler.
Ended(outcome, st) ==
    IF outcome # "ok" THEN outcome
    ELSE IF HasContent(st) THEN "ok" ELSE IF st = "empty" THEN "empty" ELSE "missing"

\* transcode_video_to_mp4 after the run. Timeout: the error is returned as
\* it is. Non-zero status: record_gpu_failure or increment_cpu_job, the
\* output is removed. Status 0: the job is counted, the output must be a
\* non-empty file, an empty one is removed.
TranscodeEnd(v, outcome) ==
    /\ vreq[v].pc = "t1run"
    /\ LET st == AtExitOk(v)
           e == Ended(outcome, st) IN
        /\ tracker' = IF outcome = "timeout" THEN tracker
                      ELSE IF outcome = "nonzero"
                      THEN (IF vreq[v].used_gpu THEN record_gpu_failure(tracker)
                            ELSE increment_cpu_job(tracker))
                      ELSE (IF vreq[v].used_gpu THEN increment_gpu_job(tracker)
                            ELSE increment_cpu_job(tracker))
        /\ gpu_stats' = IF outcome = "timeout" THEN gpu_stats
                        ELSE IF outcome = "nonzero"
                        THEN (IF vreq[v].used_gpu THEN gpu_stats
                              ELSE [gpu_stats EXCEPT !.jobs_cpu = @ + 1])
                        ELSE (IF vreq[v].used_gpu THEN [gpu_stats EXCEPT !.jobs_gpu = @ + 1]
                              ELSE [gpu_stats EXCEPT !.jobs_cpu = @ + 1])
        /\ files' = IF e \in {"nonzero", "empty"} THEN [files EXCEPT !["mp4"] = "absent"]
                    ELSE IF e = "ok" THEN [files EXCEPT !["mp4"] = st]
                    ELSE files
        /\ vreq' = IF e = "ok"
                   THEN [vreq EXCEPT ![v].pc = "verify", ![v].ended = e]
                   ELSE [vreq EXCEPT ![v].pc = "c", ![v].enc = 1, ![v].ended = e]
    /\ UNCHANGED nvid
    /\ VideoGpuFrame /\ VideoFrame

\* stream_video after Ok: the output must still be a non-empty file, else
\* the original is served.
VideoVerify(v) ==
    /\ vreq[v].pc = "verify"
    /\ vreq' = IF HasContent(files["mp4"])
               THEN [vreq EXCEPT ![v].pc = "serve", ![v].target = "mp4"]
               ELSE VideoRespond(vreq, v, "original", "none")
    /\ UNCHANGED <<files, nvid, tracker, gpu_stats>>
    /\ VideoGpuFrame /\ VideoFrame

\* transcode_video_to_mp4_cpu: the next encoder is started on its output
\* path, or every encoder has failed and stream_video answers 500.
CpuEncoderStart(v) ==
    /\ vreq[v].pc = "c"
    /\ vreq' = IF vreq[v].enc <= Len(ENCODER_CONTAINERS)
               THEN [vreq EXCEPT ![v].pc = "crun", ![v].opened = FALSE,
                                 ![v].target = ENCODER_CONTAINERS[vreq[v].enc]]
               ELSE VideoRespond(vreq, v, "500", "none")
    /\ UNCHANGED <<files, nvid, tracker, gpu_stats>>
    /\ VideoGpuFrame /\ VideoFrame

\* transcode_video_to_mp4_cpu after a run. Timeout: the error leaves the
\* function and stream_video answers 500. Non-zero status: the output is
\* removed, next encoder. Status 0: a non-empty output is counted and
\* returned, an empty one removed, next encoder.
CpuEncoderEnd(v, outcome) ==
    /\ vreq[v].pc = "crun"
    /\ LET st == AtExitOk(v)
           e == Ended(outcome, st)
           t == vreq[v].target IN
        /\ tracker' = IF e = "ok" THEN increment_cpu_job(tracker) ELSE tracker
        /\ gpu_stats' = IF e = "ok" THEN [gpu_stats EXCEPT !.jobs_cpu = @ + 1] ELSE gpu_stats
        /\ files' = IF e \in {"nonzero", "empty"} THEN [files EXCEPT ![t] = "absent"]
                    ELSE IF e = "ok" THEN [files EXCEPT ![t] = st]
                    ELSE files
        /\ vreq' = IF e = "ok" THEN [vreq EXCEPT ![v].pc = "cverify", ![v].ended = e]
                   ELSE IF e = "timeout"
                   THEN VideoRespond([vreq EXCEPT ![v].ended = e], v, "500", "none")
                   ELSE [vreq EXCEPT ![v].pc = "c", ![v].enc = @ + 1, ![v].ended = e]
    /\ UNCHANGED nvid
    /\ VideoGpuFrame /\ VideoFrame

\* stream_video after the CPU fallback's Ok: the MP4 if it exists, else the
\* WebM; 500 if the one found is empty or neither exists.
CpuVerify(v) ==
    /\ vreq[v].pc = "cverify"
    /\ vreq' = IF files["mp4"] # "absent"
               THEN (IF HasContent(files["mp4"])
                     THEN [vreq EXCEPT ![v].pc = "serve", ![v].target = "mp4"]
                     ELSE VideoRespond(vreq, v, "500", "none"))
               ELSE IF files["webm"] # "absent"
               THEN (IF HasContent(files["webm"])
                     THEN [vreq EXCEPT ![v].pc = "serve", ![v].target = "webm"]
                     ELSE VideoRespond(vreq, v, "500", "none"))
               ELSE VideoRespond(vreq, v, "500", "none")
    /\ UNCHANGED <<files, nvid, tracker, gpu_stats>>
    /\ VideoGpuFrame /\ VideoFrame

\* serve_video_file: 404 if the path has no file, else the bytes it holds.
VideoServe(v) ==
    /\ vreq[v].pc = "serve"
    /\ LET t == vreq[v].target IN
        vreq' = IF files[t] = "absent" THEN VideoRespond(vreq, v, "404", "none")
                ELSE VideoRespond(vreq, v, t, files[t])
    /\ UNCHANGED <<files, nvid, tracker, gpu_stats>>
    /\ VideoGpuFrame /\ VideoFrame

\* C13: whenever a transcode attempt ends in an error (non-zero status,
\* timeout, or empty output), no file is left at the output path of that
\* attempt.
C13_NoOutputAfterError ==
    [][\A v \in Slots :
          (/\ vreq[v].pc \in {"t1run", "crun"}
           /\ vreq'[v].pc # vreq[v].pc
           /\ vreq'[v].ended \in {"nonzero", "timeout", "empty"})
              => files'[vreq[v].target] = "absent"]_vars

\* An attempt has ended in the timeout and its partial output is at the cache path.
C13_Witness ==
    \E v \in Slots : /\ vreq[v].ended = "timeout" /\ vreq[v].pc # "crun"
                     /\ files["mp4"] = "partial"

\* C18: when the transcoding of a video has failed (both paths failed, or
\* the output is missing or empty), the GET answers with the original file.
C18_FailedTranscodeServesOriginal ==
    [][\A v \in Slots :
          (/\ vreq[v].pc \in {"c", "crun", "verify", "cverify"}
           /\ vreq'[v].pc = "idle")
              => vreq'[v].resp = "original"]_vars

\* Every encoder of the fallback has failed and the GET has answered 500.
C18_Witness ==
    \E v \in Slots : /\ vreq[v].pc = "idle" /\ vreq[v].resp = "500"
                     /\ vreq[v].ended = "nonzero"

TranscodeNext ==
    \/ \E v \in Slots : \E kind \in {"compatible", "nosha", "transcode"} : VideoArrive(v, kind)
    \/ \E v \in Slots : VideoCacheCheck(v)
    \/ \E v \in Slots : TranscodeStart(v)
    \/ \E v \in Slots : FfmpegOpen(v)
    \/ \E v \in Slots : FfmpegWrite(v)
    \/ \E v \in Slots : \E outcome \in FfmpegOutcomes : TranscodeEnd(v, outcome)
    \/ \E v \in Slots : VideoVerify(v)
    \/ \E v \in Slots : CpuEncoderStart(v)
    \/ \E v \in Slots : \E outcome \in FfmpegOutcomes : CpuEncoderEnd(v, outcome)
    \/ \E v \in Slots : CpuVerify(v)
    \/ \E v \in Slots : VideoServe(v)

(***************************************************************************)
(* Removing a root from a catalog an earlier run has filled (RemoveSpec):  *)
(* one asset under each root; the thumbnail and the preview of the asset   *)
(* under the first root are on disk, the other asset has no SHA-256 and so *)
(* no derived artifact.                                                    *)
(***************************************************************************)
TwoRootAssets ==
    upsert_item(PersistedAssets,
                DbWriteItem(<<"r2", "y">>, None, "image", 2048, 2,
                            SomeInt(800), SomeInt(600), NoInt)).rows

\* The derived paths of an asset row: those of its SHA-256, if it has one.
DerivedOf(a) == IF a.sha.some /\ a.sha.bytes # <<>> THEN DerivedPaths ELSE {}

\* The original files of the catalog's rows.
OrigPaths == {a.path : a \in TwoRootAssets}

\* No permanent delete is under way and both originals are on disk.
IdlePerm == [kind |-> "none", pc |-> "idle", ids |-> <<>>, i |-> 0, path |-> <<>>,
             sha |-> None, results |-> <<>>, status |-> 0]

PermOff ==
    /\ orig = [q \in OrigPaths |-> "present"]
    /\ pd = [s \in Slots |-> IdlePerm]
    /\ npd = 0

InitRemove ==
    /\ scan_running = FALSE
    /\ path_scan_running = [r \in Roots |-> 0]
    /\ flag = [i \in FlagIds |-> FALSE]
    /\ scan_paths = Roots
    /\ last_scan_start = FALSE
    /\ req = [s \in Slots |-> IdleReq(0)]
    /\ tasks = [t \in TaskIds |-> FreeTask]
    /\ nreq = 0
    /\ path_watcher_paused = [r \in Roots |-> "none"]
    /\ GpuInit /\ ~cfg_enabled
    /\ CatWith(TwoRootAssets)
    /\ ScanOff
    /\ files = [f \in DerivedPaths |-> IF f \in ThumbPaths THEN "complete" ELSE "absent"]
    /\ tw = [w \in Workers |-> IdleThumbWorker]
    /\ nthumb = 0
    /\ seen = NotSeen
    /\ VideoOff
    /\ PermOff
    /\ RestOff

\* C15: Remove-root deletes exactly the assets under the root with their
\* FTS rows and their derived artifacts, drops the root, leaves the assets
\* of other roots untouched, and lowers files_committed by exactly the
\* number of rows it deleted.
C15_RemoveRootDeletesAll ==
    [][\A s \in Slots :
          /\ (req[s].op = "remove" /\ req[s].pc = "db" /\ req'[s].status # 500
              /\ req'[s] # req[s])
                => LET gone == {a \in assets : UnderPrefix(a.path, <<req[s].root>>)} IN
                   /\ assets' = assets \ gone
                   /\ fts' \cap {a.id : a \in gone} = {}
                   /\ \A a \in gone : \A f \in DerivedOf(a) : files'[f] = "absent"
                   /\ req[s].root \notin scan_paths'
          /\ (req[s].op = "remove" /\ req[s].pc = "dec_store" /\ req'[s] # req[s])
                => files_committed' = files_committed - req[s].n]_vars

\* What does hold: the rows under the root, and only they, leave the
\* catalog, and the root leaves scan_paths.
RemoveRootDeletesExactlyRows ==
    [][\A s \in Slots :
          (req[s].op = "remove" /\ req[s].pc = "db" /\ req'[s].status # 500
           /\ req'[s] # req[s])
                => /\ assets' = {a \in assets : ~UnderPrefix(a.path, <<req[s].root>>)}
                   /\ req[s].root \notin scan_paths']_vars

\* C15 happens: the root was removed with 200, its asset row is gone, the
\* other root's row is there, and the thumbnail of the deleted asset is
\* still on disk.
C15_Witness ==
    /\ \E s \in Slots : req[s].pc = "idle" /\ req[s].status = 200
    /\ "r1" \notin scan_paths /\ "r2" \in scan_paths
    /\ {a.path : a \in assets} = {<<"r2", "y">>}
    /\ files["thumb"] = "complete"

RemoveNext ==
    \/ \E s \in Slots : \E r \in Roots : Arrive(s, "remove", r)
    \/ \E s \in Slots : RemoveStop(s)
    \/ \E s \in Slots : RemoveUnmap(s)
    \/ \E s \in Slots : RecomputeAny(s)
    \/ \E s \in Slots : RemoveGlobal(s)
    \/ \E s \in Slots : RemoveDb(s)
    \/ \E s \in Slots : RemoveDbFails(s)
    \/ \E s \in Slots : RemoveDecLoad(s)
    \/ \E s \in Slots : RemoveDecStore(s)

(***************************************************************************)
(* DELETE /asset/{id}/permanent and the bulk permanent delete (PermSpec),  *)
(* over the catalog of RemoveSpec with both original files on disk. Paths  *)
(* are the catalog's own (AppPaths.root_host is not set).                  *)
(***************************************************************************)
MaxPermDeletes == 2
\* The ids a client asks for: the two in the catalog and one that is not.
RequestIds == {1, 2, 3}
\* payload.ids of a bulk request.
IdLists == {<<>>} \cup [1..1 -> RequestIds] \cup [1..2 -> RequestIds]
\* std::fs::remove_file on a file that is there: done, refused on a
\* read-only file system, or another I/O error.
UnlinkOutcomes == {"ok", "read_only", "other"}

InitPerm ==
    /\ SupInit /\ GpuInit /\ ~cfg_enabled
    /\ CatWith(TwoRootAssets)
    /\ ScanOff
    /\ files = [f \in DerivedPaths |-> IF f \in ThumbPaths THEN "complete" ELSE "absent"]
    /\ tw = [w \in Workers |-> IdleThumbWorker]
    /\ nthumb = 0
    /\ seen = NotSeen
    /\ VideoOff
    /\ PermOff
    /\ RestOff

PermFrame ==
    UNCHANGED <<supVars, gpuVars, scanVars, watchVars, tw, nthumb, seen, vreq, nvid,
                rangeVars, albumVars, closeVars, gaugeVars>>
PermCatFrame ==
    UNCHANGED <<db_q, buf, fts_rows, fts_pending, wpc, wn, files_committed, thumb_q,
                gauge_thumb, del, nitems, ndel, thumb_attempted, thumb_dropped>>

\* delete_asset_permanent (one id) or delete_assets_permanent (payload.ids;
\* 400 at once if empty).
PermArrive(s, kind, ids) ==
    /\ pd[s].pc = "idle"
    /\ npd < MaxPermDeletes
    /\ npd' = npd + 1
    /\ pd' = IF ids = <<>>
             THEN [pd EXCEPT ![s] = [IdlePerm EXCEPT !.kind = kind, !.status = 400]]
             ELSE [pd EXCEPT ![s] = [IdlePerm EXCEPT !.kind = kind, !.pc = "fetch",
                                                    !.ids = ids, !.i = 1]]
    /\ UNCHANGED <<orig, files, assets, fts>>
    /\ PermCatFrame /\ PermFrame

\* outcomes.push(outcome), then the next id of the loop or the response.
PermPush(h, r) ==
    [h EXCEPT !.results = Append(@, [id |-> h.ids[h.i], r |-> r]),
              !.i = @ + 1,
              !.pc = IF h.i < Len(h.ids) THEN "fetch" ELSE "respond"]

\* remove_original_file with every error taken as done.
remove_original_file_unchecked(st, outcome) == "ok"

\* remove_original_file: NotFound counts as done.
remove_original_file(st, outcome) == IF st = "absent" THEN "ok" ELSE outcome

\* perform_permanent_delete: fetch_asset_file_info(conn, id).
PermFetch(s) ==
    /\ pd[s].pc = "fetch"
    /\ LET id == pd[s].ids[pd[s].i] IN
        pd' = IF \E a \in assets : a.id = id
              THEN LET a == CHOOSE a \in assets : a.id = id IN
                   [pd EXCEPT ![s].path = a.path, ![s].sha = a.sha, ![s].pc = "unlink"]
              ELSE [pd EXCEPT ![s] = PermPush(pd[s], "not_found")]
    /\ UNCHANGED <<orig, npd, files, assets, fts>>
    /\ PermCatFrame /\ PermFrame

\* perform_permanent_delete: match remove_original_file(..). Ok: on to the
\* catalog. ReadOnly: a read_only result for this id. Other: Err, which
\* leaves the loop and the handler answers 500.
PermRemoveFile(s, outcome) ==
    /\ pd[s].pc = "unlink"
    /\ LET q == pd[s].path
           res == remove_original_file(orig[q], outcome) IN
        /\ orig' = IF orig[q] # "absent" /\ outcome = "ok"
                   THEN [orig EXCEPT ![q] = "absent"] ELSE orig
        /\ pd' = IF res = "ok" THEN [pd EXCEPT ![s].pc = "row"]
                 ELSE IF res = "read_only"
                 THEN [pd EXCEPT ![s] = PermPush(pd[s], "read_only")]
                 ELSE [pd EXCEPT ![s] = [IdlePerm EXCEPT !.kind = pd[s].kind, !.status = 500]]
    /\ UNCHANGED <<npd, files, assets, fts>>
    /\ PermCatFrame /\ PermFrame

\* delete_asset_by_id: the asset row, then the FTS row (result discarded).
PermDeleteRow(s) ==
    /\ pd[s].pc = "row"
    /\ ~WriterHoldsLock
    /\ LET id == pd[s].ids[pd[s].i]
           deleted == \E a \in assets : a.id = id IN
        /\ assets' = {a \in assets : a.id # id}
        /\ \E ok \in BOOLEAN : fts' = IF ok THEN fts \ {id} ELSE fts
        /\ pd' = IF deleted THEN [pd EXCEPT ![s].pc = "derived"]
                 ELSE [pd EXCEPT ![s] = PermPush(pd[s], "not_found")]
    /\ UNCHANGED <<orig, npd, files>>
    /\ PermCatFrame /\ PermFrame

\* remove_derived_files: the thumbnail and the preview of the SHA-256.
PermRemoveDerived(s) ==
    /\ pd[s].pc = "derived"
    /\ files' = IF pd[s].sha.some /\ pd[s].sha.bytes # <<>>
                THEN [f \in DerivedPaths |-> IF f \in ThumbPaths THEN "absent" ELSE files[f]]
                ELSE files
    /\ pd' = [pd EXCEPT ![s] = PermPush(pd[s], "deleted")]
    /\ UNCHANGED <<orig, npd, assets, fts>>
    /\ PermCatFrame /\ PermFrame

\* The status of the single delete: 200, 409 read-only, 404 not found.
SingleStatus(r) == IF r = "deleted" THEN 200 ELSE IF r = "read_only" THEN 409 ELSE 404

\* The response: the single delete answers by its outcome; the bulk delete
\* answers 409 if any result is read-only, else 200, with every result.
PermRespond(s) ==
    /\ pd[s].pc = "respond"
    /\ LET rs == pd[s].results IN
        pd' = [pd EXCEPT ![s].pc = "idle",
                         ![s].status = IF pd[s].kind = "single" THEN SingleStatus(rs[1].r)
                                       ELSE IF \E k \in 1..Len(rs) : rs[k].r = "read_only"
                                       THEN 409 ELSE 200]
    /\ UNCHANGED <<orig, npd, files, assets, fts>>
    /\ PermCatFrame /\ PermFrame

\* C16: permanent delete removes the original file before it touches the
\* catalog. A step of the handler that fails to remove the file changes
\* neither the catalog row, nor the FTS row, nor the derived artifacts, and
\* records the failure (a read-only result, or 500 for another I/O error);
\* the catalog and the derived artifacts are touched only once the file is
\* gone; a single delete whose result is read-only answers 409.
C16_FileFirstAndFailureChangesNothing ==
    [][\A s \in Slots :
          /\ (pd[s].pc = "unlink" /\ pd'[s] # pd[s] /\ orig'[pd[s].path] # "absent")
                => /\ assets' = assets /\ fts' = fts /\ files' = files /\ orig' = orig
                   /\ \/ pd'[s].status = 500
                      \/ /\ Len(pd'[s].results) = Len(pd[s].results) + 1
                         /\ pd'[s].results[Len(pd'[s].results)].r = "read_only"
          /\ (pd[s].pc \in {"row", "derived"} /\ pd'[s] # pd[s])
                => orig[pd[s].path] = "absent"
          /\ (pd[s].pc = "respond" /\ pd'[s] # pd[s] /\ pd[s].kind = "single")
                => (pd'[s].status = 409 <=> pd[s].results[1].r = "read_only")]_vars

\* C16 happens: the delete of asset 1 was answered 409, and its file, its
\* row, its FTS row and its thumbnail are all there.
C16_Witness ==
    \E s \in Slots :
        /\ pd[s].kind = "single" /\ pd[s].pc = "idle" /\ pd[s].status = 409
        /\ pd[s].results = <<[id |-> 1, r |-> "read_only"]>>
        /\ orig[<<"r1", "x">>] = "present"
        /\ \E a \in assets : a.id = 1
        /\ 1 \in fts
        /\ files["thumb"] = "complete" /\ files["preview"] = "complete"

\* C17: a bulk permanent delete answers with one result for every id it
\* was asked for, in order, whatever happened to each.
C17_BulkOneResultPerId ==
    [][\A s \in Slots :
          (pd[s].kind = "bulk" /\ pd[s].pc \notin {"idle"} /\ pd'[s].pc = "idle")
              => /\ Len(pd'[s].results) = Len(pd[s].ids)
                 /\ \A k \in 1..Len(pd[s].ids) : pd'[s].results[k].id = pd[s].ids[k]]_vars

\* What does hold: a read-only failure is recorded as the result of its id
\* and the loop goes on to the next id, and the response of a bulk delete
\* that reaches its end has one result per id and is 409 exactly if some
\* result is read-only.
ReadOnlyDoesNotStopBulk ==
    [][\A s \in Slots :
          /\ (/\ pd[s].pc = "unlink" /\ pd'[s] # pd[s] /\ pd'[s].status # 500
              /\ orig'[pd[s].path] # "absent")
                => /\ pd'[s].i = pd[s].i + 1
                   /\ pd'[s].pc = IF pd[s].i < Len(pd[s].ids) THEN "fetch" ELSE "respond"
          /\ (pd[s].kind = "bulk" /\ pd[s].pc = "respond" /\ pd'[s] # pd[s])
                => /\ Len(pd'[s].results) = Len(pd[s].ids)
                   /\ pd'[s].status = 409
                        <=> \E k \in 1..Len(pd[s].ids) : pd'[s].results[k].r = "read_only"]_vars

\* C17 happens: a bulk delete of two ids deleted the first, met an I/O
\* error that is not read-only on the second, and answered 500 with no
\* result at all.
C17_Witness ==
    \E s \in Slots :
        /\ pd[s].kind = "bulk" /\ pd[s].pc = "idle" /\ pd[s].status = 500
        /\ pd[s].results = <<>>
        /\ orig[<<"r1", "x">>] = "absent" /\ orig[<<"r2", "y">>] = "present"
        /\ ~\E a \in assets : a.id = 1

PermNext ==
    \/ \E s \in Slots : \E id \in RequestIds : PermArrive(s, "single", <<id>>)
    \/ \E s \in Slots : \E ids \in IdLists : PermArrive(s, "bulk", ids)
    \/ \E s \in Slots : PermFetch(s)
    \/ \E s \in Slots : \E outcome \in UnlinkOutcomes : PermRemoveFile(s, outcome)
    \/ \E s \in Slots : PermDeleteRow(s)
    \/ \E s \in Slots : PermRemoveDerived(s)
    \/ \E s \in Slots : PermRespond(s)

(***************************************************************************)
(* Permanent delete over a catalog whose two rows hold the same content    *)
(* (ShareSpec): assets.sha256 is indexed, not unique, and the derived      *)
(* artifacts are addressed by the SHA-256 alone.                           *)
(***************************************************************************)
\* The catalog of PermSpec with the second file a copy of the first.
SharedShaAssets ==
    upsert_item(PersistedAssets,
                DbWriteItem(<<"r2", "y">>, Some(<<171>>), "image", 1024, 2,
                            SomeInt(640), SomeInt(480), NoInt)).rows

InitShare ==
    /\ SupInit /\ GpuInit /\ ~cfg_enabled
    /\ CatWith(SharedShaAssets)
    /\ ScanOff
    /\ files = [f \in DerivedPaths |-> IF f \in ThumbPaths THEN "complete" ELSE "absent"]
    /\ tw = [w \in Workers |-> IdleThumbWorker]
    /\ nthumb = 0
    /\ seen = NotSeen
    /\ VideoOff
    /\ PermOff
    /\ RestOff

\* C40: deleting an asset never removes derived artifacts that are still
\* addressed by another catalog row with the same SHA-256: when the handler
\* comes to the derived files of the row it has deleted and a remaining row
\* holds that SHA-256, every derived file stays as it is.
C40_SharedArtifactsKept ==
    [][\A s \in Slots :
          (/\ pd[s].pc = "derived" /\ pd'[s] # pd[s]
           /\ \E a \in assets : a.sha.some /\ a.sha = pd[s].sha)
              => files' = files]_vars

\* C40 happens: one of the two copies has been deleted, the row of the
\* other is in the catalog with its SHA-256 and its file on disk, and the
\* thumbnail and the preview of that SHA-256 are gone.
C40_Witness ==
    /\ \E a \in assets : a.path = <<"r2", "y">> /\ a.sha = Some(<<171>>)
    /\ orig[<<"r2", "y">>] = "present"
    /\ ~\E a \in assets : a.path = <<"r1", "x">>
    /\ files["thumb"] = "absent" /\ files["preview"] = "absent"

(***************************************************************************)
(* serve_video_file and parse_range (RangeSpec): one response to one       *)
(* request, for every header and every file size within the bounds. u64    *)
(* is modelled RangeBits wide.                                             *)
(***************************************************************************)
RangeBits == 3
U64Count == 2 ^ RangeBits
\* <start> or <end> of the header: empty, not a u64, or a number.
Empty == [k |-> "empty", v |-> 0]
NotU64 == [k |-> "bad", v |-> 0]
Num(v) == [k |-> "num", v |-> v]
HeaderNumbers == {Empty, NotU64} \cup {Num(v) : v \in 0..(U64Count - 1)}
\* The Range header: absent, not of the form bytes=<start>-<end>, or of it.
RangeHeaders ==
    [form : {"none", "other"}, start : {Empty}, end : {Empty}]
        \cup [form : {"bytes"}, start : HeaderNumbers, end : HeaderNumbers]

\* The request, the size of the file, and whether the build checks integer
\* overflow (the debug profile does, the release profile wraps).
RangeRequests ==
    [pc : {"req"}, hdr : RangeHeaders, size : 0..(U64Count - 1), overflow_checks : BOOLEAN]

NoRange == [kind |-> "none", start |-> 0, end |-> 0]

\* parse_range: start first (None if not a u64), then end, which for an
\* empty <end> is file_size - 1 in u64: with file_size = 0 that panics on a
\* build with overflow checks and wraps to u64::MAX otherwise.
parse_range(hdr, file_size, overflow_checks) ==
    IF hdr.form # "bytes" \/ hdr.start = NotU64 THEN NoRange
    ELSE LET start == IF hdr.start = Empty THEN 0 ELSE hdr.start.v IN
         IF hdr.end = Empty /\ file_size = 0 /\ overflow_checks
         THEN [kind |-> "panic", start |-> 0, end |-> 0]
         ELSE IF hdr.end = NotU64 THEN NoRange
         ELSE LET end == IF hdr.end = Empty THEN (file_size - 1) % U64Count
                         ELSE hdr.end.v IN
              IF start <= end /\ end < file_size
              THEN [kind |-> "some", start |-> start, end |-> end]
              ELSE NoRange

\* The whole file with 200.
FullResponse(size) == [status |-> "200", lo |-> 0, hi |-> size - 1]

\* serve_video_file on a file that is there: 206 with the bytes of the
\* parsed range, else the whole file with 200; a panic ends the handler.
ServeRange ==
    /\ rng.pc = "req"
    /\ LET r == IF rng.hdr.form = "none" THEN NoRange
                ELSE parse_range(rng.hdr, rng.size, rng.overflow_checks)
           resp == IF r.kind = "some" THEN [status |-> "206", lo |-> r.start, hi |-> r.end]
                   ELSE IF r.kind = "panic" THEN [status |-> "panic", lo |-> 0, hi |-> 0]
                   ELSE FullResponse(rng.size) IN
        rng' = [pc |-> "done", hdr |-> rng.hdr, size |-> rng.size,
                overflow_checks |-> rng.overflow_checks, resp |-> resp]
    /\ UNCHANGED <<supVars, gpuVars, catVars, scanVars, derVars, watchVars, permVars, albumVars, closeVars, gaugeVars>>

\* The range a header bytes=<start>-<end> asks for, in the integers.
AskedStart(hdr) == IF hdr.start.k = "empty" THEN 0 ELSE hdr.start.v
AskedEnd(hdr, size) == IF hdr.end.k = "empty" THEN size - 1 ELSE hdr.end.v
Satisfiable(hdr, size) ==
    /\ hdr.form = "bytes" /\ hdr.start.k # "bad" /\ hdr.end.k # "bad"
    /\ AskedStart(hdr) <= AskedEnd(hdr, size)
    /\ AskedEnd(hdr, size) < size

\* C19: the response is 206 with exactly the bytes start..end if
\* start <= end < size (empty start 0, empty end size - 1), and otherwise,
\* a zero-length file included, the whole file with 200 and no error.
C19_RangeResponse ==
    rng.pc = "done" =>
        IF Satisfiable(rng.hdr, rng.size)
        THEN rng.resp = [status |-> "206", lo |-> AskedStart(rng.hdr),
                         hi |-> AskedEnd(rng.hdr, rng.size)]
        ELSE rng.resp = FullResponse(rng.size)

\* What does hold: the same on the builds that wrap.
RangeResponseWhenWrapping ==
    (rng.pc = "done" /\ ~rng.overflow_checks) =>
        IF Satisfiable(rng.hdr, rng.size)
        THEN rng.resp = [status |-> "206", lo |-> AskedStart(rng.hdr),
                         hi |-> AskedEnd(rng.hdr, rng.size)]
        ELSE rng.resp = FullResponse(rng.size)

\* C19 happens: a zero-length file was asked for with bytes=0- and the
\* handler panicked.
C19_Witness ==
    /\ rng.pc = "done" /\ rng.size = 0
    /\ rng.hdr = [form |-> "bytes", start |-> Num(0), end |-> Empty]
    /\ rng.resp.status = "panic"

InitRange ==
    /\ SupInit /\ GpuInit /\ ~cfg_enabled /\ CatInit /\ ScanOff /\ DerInit /\ PermOff
    /\ AlbumOff /\ ChannelOpen /\ GaugeInit
    /\ rng \in RangeRequests

RangeNext == ServeRange

(***************************************************************************)
(* Albums and their membership rows (AlbumSpec), over the catalog of       *)
(* RemoveSpec. Each handler runs its statements on its own connection.     *)
(***************************************************************************)
MaxAlbumOps == 4
MaxAlbums == 2
AlbumKeys == 1..MaxAlbums
\* The asset ids a client names: one in the catalog and one that is not.
AlbumAssetIds == {1, 3}

\* Whether SQLite enforces the FOREIGN KEY clauses of the schema: the
\* connections set no foreign_keys pragma, so this is the default of the
\* SQLite library the program is built with; membership is said to be
\* deleted by cascade, which needs it on.
foreign_keys == TRUE

\* id INTEGER PRIMARY KEY: last_insert_rowid() is the largest id plus one.
NextAlbumId(albs) == IF albs = {} THEN 1 ELSE Max(albs) + 1

\* DELETE FROM albums WHERE id = ?1 on a schema without ON DELETE CASCADE.
delete_album_keeps_edges(albs, edges, k) ==
    [albums |-> albs \ {k}, edges |-> edges, deleted |-> k \in albs]

\* db::writer::delete_album: DELETE FROM albums WHERE id = ?1; the rows of
\* album_assets go by FOREIGN KEY(album_id) .. ON DELETE CASCADE.
delete_album(albs, edges, k) ==
    [albums |-> albs \ {k},
     edges |-> IF foreign_keys /\ k \in albs THEN {e \in edges : e[1] # k} ELSE edges,
     deleted |-> k \in albs]

\* db::query::get_albums_for_asset: SELECT album_id FROM album_assets WHERE asset_id = ?1
get_albums_for_asset(edges, x) == {e[1] : e \in {d \in edges : d[2] = x}}

\* db::query::get_album: the album's asset ids, if the album is there.
get_album(albs, edges, k) ==
    IF k \in albs THEN [some |-> TRUE, asset_ids |-> {e[2] : e \in {d \in edges : d[1] = k}}]
    ELSE [some |-> FALSE, asset_ids |-> {}]

AlbumAnswer(a, s, status, out) ==
    [a EXCEPT ![s].pc = "idle", ![s].status = status, ![s].out = out]

AlbumFrame ==
    UNCHANGED <<supVars, gpuVars, catVars, scanVars, derVars, watchVars, permVars, rangeVars,
                closeVars, gaugeVars>>

AlbumArrive(s, op, k, x) ==
    /\ alb[s].pc = "idle"
    /\ nalb < MaxAlbumOps
    /\ nalb' = nalb + 1
    /\ alb' = [alb EXCEPT ![s] = [op |-> op, pc |-> "begin", k |-> k, x |-> x,
                                  status |-> 0, out |-> {}]]
    /\ UNCHANGED <<albums, album_assets>>
    /\ AlbumFrame

\* create_album: INSERT INTO albums, then get_album of the new id; 201.
CreateAlbum(s) ==
    /\ alb[s].op = "create" /\ alb[s].pc = "begin"
    /\ NextAlbumId(albums) <= MaxAlbums
    /\ albums' = albums \cup {NextAlbumId(albums)}
    /\ alb' = [AlbumAnswer(alb, s, 201, {}) EXCEPT ![s].k = NextAlbumId(albums)]
    /\ UNCHANGED <<album_assets, nalb>>
    /\ AlbumFrame

\* add_assets_to_album: get_album; 404 if the album is not there.
AddCheck(s) ==
    /\ alb[s].op = "add" /\ alb[s].pc = "begin"
    /\ alb' = IF get_album(albums, album_assets, alb[s].k).some
              THEN [alb EXCEPT ![s].pc = "insert"]
              ELSE AlbumAnswer(alb, s, 404, {})
    /\ UNCHANGED <<albums, album_assets, nalb>>
    /\ AlbumFrame

\* db::writer::add_assets_to_album: INSERT OR IGNORE INTO album_assets; a
\* row that breaks a foreign key is an error (rollback, 500). Then
\* get_album again: 200 with the album, or 404.
AddInsert(s) ==
    /\ alb[s].op = "add" /\ alb[s].pc = "insert"
    /\ ~WriterHoldsLock
    /\ LET k == alb[s].k
           x == alb[s].x
           broken == foreign_keys /\ (k \notin albums \/ ~\E a \in assets : a.id = x)
           edges == IF broken THEN album_assets ELSE album_assets \cup {<<k, x>>}
           got == get_album(albums, edges, k) IN
        /\ album_assets' = edges
        /\ alb' = IF broken THEN AlbumAnswer(alb, s, 500, {})
                  ELSE IF got.some THEN AlbumAnswer(alb, s, 200, got.asset_ids)
                  ELSE AlbumAnswer(alb, s, 404, {})
    /\ UNCHANGED <<albums, nalb>>
    /\ AlbumFrame

\* The handler delete_album: 200 if a row was deleted, else 404.
DeleteAlbum(s) ==
    /\ alb[s].op = "delete" /\ alb[s].pc = "begin"
    /\ ~WriterHoldsLock
    /\ LET d == delete_album(albums, album_assets, alb[s].k) IN
        /\ albums' = d.albums
        /\ album_assets' = d.edges
        /\ alb' = AlbumAnswer(alb, s, IF d.deleted THEN 200 ELSE 404, {})
    /\ UNCHANGED nalb
    /\ AlbumFrame

\* The handler get_album: 200 with the asset ids, or 404.
GetAlbum(s) ==
    /\ alb[s].op = "get" /\ alb[s].pc = "begin"
    /\ LET got == get_album(albums, album_assets, alb[s].k) IN
        alb' = IF got.some THEN AlbumAnswer(alb, s, 200, got.asset_ids)
               ELSE AlbumAnswer(alb, s, 404, {})
    /\ UNCHANGED <<albums, album_assets, nalb>>
    /\ AlbumFrame

\* The handler get_albums_for_asset: 200 with the album ids.
AlbumsForAsset(s) ==
    /\ alb[s].op = "for_asset" /\ alb[s].pc = "begin"
    /\ alb' = AlbumAnswer(alb, s, 200, get_albums_for_asset(album_assets, alb[s].x))
    /\ UNCHANGED <<albums, album_assets, nalb>>
    /\ AlbumFrame

InitAlbum ==
    /\ SupInit /\ GpuInit /\ ~cfg_enabled
    /\ CatWith(TwoRootAssets)
    /\ ScanOff /\ DerInit /\ PermOff /\ RangeOff /\ AlbumOff /\ ChannelOpen /\ GaugeInit

AlbumNext ==
    \/ \E s \in Slots : \E op \in {"create", "add", "delete", "get", "for_asset"} :
          \E k \in AlbumKeys : \E x \in AlbumAssetIds : AlbumArrive(s, op, k, x)
    \/ \E s \in Slots : CreateAlbum(s)
    \/ \E s \in Slots : AddCheck(s)
    \/ \E s \in Slots : AddInsert(s)
    \/ \E s \in Slots : DeleteAlbum(s)
    \/ \E s \in Slots : GetAlbum(s)
    \/ \E s \in Slots : AlbumsForAsset(s)

(***************************************************************************)
(* Cancelling a scan (CancelSpec): an Add of the default root has been     *)
(* accepted and its scan task has just been spawned over the tree of two   *)
(* images; Pause requests arrive while the task walks and emits.           *)
(***************************************************************************)
CHECK_EVERY == 100   \* scan_bfs (WalkDir) reads the flag every 100 entries

\* The tree of the cancelled scan: two readable images.
SmallTree ==
    [p \in ScanPaths |-> [mime |-> "image", size_bytes |-> 1024, mtime_ns |-> 1,
                          readable |-> TRUE, probe_ok |-> TRUE]]

\* The scan task is spawned. Built for Linux it runs scan_bfs_getdents and
\* starts with the enumeration ("enum"); built for another system it runs
\* the WalkDir loop, which on a tree of fewer than CHECK_EVERY entries
\* never reaches a read of the flag and only sends ("send").
InitCancel ==
    /\ Cardinality(ScanPaths) < CHECK_EVERY
    /\ scan_running = TRUE
    /\ path_scan_running = [r \in Roots |-> IF r = DefaultRoot THEN 1 ELSE 0]
    /\ flag = [i \in FlagIds |-> i = 1]
    /\ scan_paths = {DefaultRoot}
    /\ last_scan_start = TRUE
    /\ req = [s \in Slots |-> IdleReq(0)]
    /\ tasks \in {[t \in TaskIds |-> IF t = 1
                                    THEN [pc |-> pc, root |-> DefaultRoot, f |-> 1, any |-> FALSE]
                                    ELSE FreeTask] : pc \in {"enum", "send"}}
    /\ nreq = 0
    /\ path_watcher_paused = [r \in Roots |-> IF r = DefaultRoot THEN "false" ELSE "none"]
    /\ GpuInit /\ ~cfg_enabled
    /\ CatInit
    /\ tree = SmallTree
    /\ scan_no = 1
    /\ to_emit = ScanPaths
    /\ disc_q = <<>> /\ hash_q = <<>> /\ meta_q = <<>>
    /\ hash_jobs = 0
    /\ snap = NoSnap
    /\ DerInit
    /\ PermOff
    /\ RestOff

\* scan_bfs_getdents, phases 1 and 2 and the test after them: the
\* enumeration and the stat pass read the flag as they go, and
\*   if !scan_running.load() { return Ok(()) }
\* ends the scan before anything is sent.
EnumCheck(t) ==
    /\ tasks[t].pc = "enum"
    /\ IF flag[tasks[t].f]
       THEN /\ tasks' = [tasks EXCEPT ![t].pc = "send"]
            /\ UNCHANGED to_emit
       ELSE /\ tasks' = [tasks EXCEPT ![t].pc = "scan"]
            /\ to_emit' = {}
    /\ UNCHANGED <<scan_running, path_scan_running, flag, scan_paths, last_scan_start, req, nreq>>
    /\ UNCHANGED <<tree, scan_no, disc_q, hash_q, meta_q, hash_jobs, snap>>
    /\ UNCHANGED <<gpuVars, catVars, otherVars>>

\* scan_bfs_getdents, phase 3 (and the WalkDir loop between two reads of
\* the flag): tx.send(item).await for the next item; the flag is not read.
EmitItem(t, p) ==
    /\ tasks[t].pc = "send"
    /\ p \in to_emit
    /\ send(disc_q, p, DiscQueueCap).ready
    /\ disc_q' = send(disc_q, p, DiscQueueCap).q
    /\ to_emit' = to_emit \ {p}
    /\ UNCHANGED <<tree, scan_no, hash_q, meta_q, hash_jobs, snap>>
    /\ UNCHANGED <<supVars, gpuVars, catVars, otherVars>>

\* Every item has been sent: scan_bfs is about to return Ok(()).
EmitDone(t) ==
    /\ tasks[t].pc = "send"
    /\ to_emit = {}
    /\ tasks' = [tasks EXCEPT ![t].pc = "scan"]
    /\ UNCHANGED <<scan_running, path_scan_running, flag, scan_paths, last_scan_start, req, nreq>>
    /\ UNCHANGED <<gpuVars, catVars, scanVars, otherVars>>

\* C25: the cancellation flag is consulted before each send to the discover
\* queue: once the running flag of a scan task is cleared, the task puts no
\* further item on the discover queue.
C25_NoSendAfterCancel ==
    [][\A t \in TaskIds :
          (tasks[t].pc \in {"enum", "send"} /\ ~flag[tasks[t].f])
              => Len(disc_q') <= Len(disc_q)]_vars

\* C25 happens: Pause has been answered, the root's flag is cleared, and
\* the scan task is in its emission phase with files still to send.
C25_Witness ==
    /\ \A s \in Slots : req[s].pc = "idle"
    /\ \E s \in Slots : req[s].status = 200
    /\ tasks[1].pc = "send" /\ ~flag[tasks[1].f]
    /\ to_emit # {}

CancelNext ==
    \/ \E s \in Slots : Arrive(s, "pause", DefaultRoot)
    \/ \E s \in Slots : PauseStore(s)
    \/ \E s \in Slots : RecomputeAny(s)
    \/ \E s \in Slots : PauseGlobal(s)
    \/ \E t \in TaskIds : EnumCheck(t)
    \/ \E t \in TaskIds : \E p \in ScanPaths : EmitItem(t, p)
    \/ \E t \in TaskIds : EmitDone(t)
    \/ \E t \in TaskIds : TaskStore(t)
    \/ \E t \in TaskIds : TaskAny(t)
    \/ \E t \in TaskIds : TaskFin(t)
    \/ Forward
    \/ HashWorker
    \/ MetaWorker
    \/ WriterRecv
    \/ WriterTimeout
    \/ CommitAssets
    \/ FtsInsert
    \/ CommitFts
    \/ CountCommitted
    \/ ThumbRecv

(***************************************************************************)
(* Removing a root under a pipeline that still works (RequeueSpec): the    *)
(* scan task of the default root has sent everything and ended, the item   *)
(* of the catalogued file waits in the discover channel and the job of the *)
(* other file in the hash channel. Nothing is discovered any more.         *)
(***************************************************************************)
CataloguedPath == <<"r1", "x">>
OtherPath == <<"r1", "y">>

InitRequeue ==
    /\ scan_running = FALSE
    /\ path_scan_running = [r \in Roots |-> IF r = DefaultRoot THEN 1 ELSE 0]
    /\ flag = [i \in FlagIds |-> FALSE]
    /\ scan_paths = {DefaultRoot}
    /\ last_scan_start = FALSE
    /\ req = [s \in Slots |-> IdleReq(0)]
    /\ tasks = [t \in TaskIds |-> FreeTask]
    /\ nreq = 0
    /\ path_watcher_paused = [r \in Roots |-> IF r = DefaultRoot THEN "false" ELSE "none"]
    /\ GpuInit /\ ~cfg_enabled
    /\ CatWith(PersistedAssets)
    /\ tree = SmallTree
    /\ scan_no = 3
    /\ to_emit = {}
    /\ disc_q = <<CataloguedPath>>
    /\ hash_q = <<HashJob(OtherPath)>>
    /\ meta_q = <<>>
    /\ hash_jobs = 1
    /\ snap = NoSnap
    /\ DerInit
    /\ PermOff
    /\ RestOff

\* Remove-root has deleted the rows under the root (and taken the root out
\* of scan_paths in the same step) and has answered.
RootRemoved(r) ==
    /\ r \notin scan_paths
    /\ \A s \in Slots : req[s].pc = "idle"

\* C26: once Remove-root has deleted an asset's row and the pipeline has
\* drained, the catalog holds no row for that path unless the file was
\* discovered again after the deletion (here nothing is discovered at all):
\* items in flight from before the deletion do not re-create the row.
C26_DeletedRowStaysDeleted ==
    (RootRemoved(DefaultRoot) /\ Drained)
        => \A a \in assets : a.path # CataloguedPath

\* C26 happens: the root is removed, every handler has answered, the
\* pipeline has drained, and the catalog holds a row for the deleted path.
C26_Witness ==
    /\ RootRemoved(DefaultRoot) /\ Drained
    /\ \E a \in assets : a.path = CataloguedPath

RequeueNext ==
    \/ \E s \in Slots : Arrive(s, "remove", DefaultRoot)
    \/ \E s \in Slots : RemoveStop(s)
    \/ \E s \in Slots : RemoveUnmap(s)
    \/ \E s \in Slots : RecomputeAny(s)
    \/ \E s \in Slots : RemoveGlobal(s)
    \/ \E s \in Slots : RemoveDb(s)
    \/ \E s \in Slots : RemoveDbFails(s)
    \/ \E s \in Slots : RemoveDecLoad(s)
    \/ \E s \in Slots : RemoveDecStore(s)
    \/ Forward
    \/ HashWorker
    \/ MetaWorker
    \/ WriterRecv
    \/ WriterTimeout
    \/ CommitAssets
    \/ FtsInsert
    \/ CommitFts
    \/ CountCommitted
    \/ ThumbRecv

\* Each specification starts its own part after construction and keeps the
\* other parts at rest.
(***************************************************************************)
(* The queue depth gauges (GaugeSpec). A producer sends and then           *)
(* increments the gauge of the channel; the consumer receives and then     *)
(* decrements it. The gauges are AtomicUsize: fetch_add and fetch_sub wrap.*)
(* Only the number of items in each channel matters here; a dispatcher's   *)
(* per-worker channel counts as part of the stage's channel, the gauge is  *)
(* decremented by the worker that finally receives the item.               *)
(***************************************************************************)
GaugeBits == 2          \* width of a gauge (64 in the source)
MaxGaugeItems == 2      \* items scan_bfs sends in one run
USIZE_MOD == 2 ^ GaugeBits

\* AtomicUsize::fetch_add(1) and fetch_sub(1): the value stored.
fetch_add(g) == (g + 1) % USIZE_MOD
fetch_sub(g) == (g + USIZE_MOD - 1) % USIZE_MOD

GaugeCap(st) ==
    CASE st = "discover" -> DiscQueueCap
      [] st = "hash" -> HashQueueCap
      [] st = "metadata" -> MetaQueueCap
      [] st = "db_write" -> DbQueueCap

\* Where a consumer goes after its fetch_sub. The forwarder skips the item
\* (continue), sends it to the metadata stage (unchanged file, metadata
\* incomplete) or to the hash stage; a hash worker sends to the metadata
\* stage, a metadata worker to the db-write channel; the writer buffers the
\* item and receives again.
AfterDec(t) ==
    CASE t = "fwd" -> {[pc |-> "recv", st |-> "discover"],
                       [pc |-> "send", st |-> "metadata"],
                       [pc |-> "send", st |-> "hash"]}
      [] t = "hash" -> {[pc |-> "send", st |-> "metadata"]}
      [] t = "meta" -> {[pc |-> "send", st |-> "db_write"]}
      [] t = "writer" -> {[pc |-> "recv", st |-> "db_write"]}

GaugeFrame == UNCHANGED <<supVars, gpuVars, catVars, scanVars, derVars, watchVars,
                          permVars, rangeVars, albumVars, closeVars>>

\* let _ = tx.send(x).await, by scan_bfs, the forwarder or a worker: the task
\* waits while the channel is full.
GaugeSend(t) ==
    /\ gpc[t].pc = "send"
    /\ t = "bfs" => gsent < MaxGaugeItems
    /\ gq[gpc[t].st] < GaugeCap(gpc[t].st)
    /\ gq' = [gq EXCEPT ![gpc[t].st] = gq[gpc[t].st] + 1]
    /\ gsent' = IF t = "bfs" THEN gsent + 1 ELSE gsent
    /\ gpc' = [gpc EXCEPT ![t].pc = "inc"]
    /\ UNCHANGED gauges
    /\ GaugeFrame

\* gauges.<stage>.fetch_add(1), the statement after the send; scan_bfs goes
\* on to its next item, the others to their next recv.
GaugeInc(t) ==
    /\ gpc[t].pc = "inc"
    /\ gauges' = [gauges EXCEPT ![gpc[t].st] = fetch_add(gauges[gpc[t].st])]
    /\ gpc' = [gpc EXCEPT ![t] = IF t = "bfs" THEN [pc |-> "send", st |-> "discover"]
                                 ELSE [pc |-> "recv", st |-> Consumes(t)]]
    /\ UNCHANGED <<gq, gsent>>
    /\ GaugeFrame

\* while let Some(x) = rx.recv().await
GaugeRecv(t) ==
    /\ gpc[t].pc = "recv"
    /\ gq[Consumes(t)] > 0
    /\ gq' = [gq EXCEPT ![Consumes(t)] = gq[Consumes(t)] - 1]
    /\ gpc' = [gpc EXCEPT ![t].pc = "dec"]
    /\ UNCHANGED <<gauges, gsent>>
    /\ GaugeFrame

\* gauges.<stage>.fetch_sub(1), the first statement of the loop body.
GaugeDec(t) ==
    /\ gpc[t].pc = "dec"
    /\ gauges' = [gauges EXCEPT ![Consumes(t)] = fetch_sub(gauges[Consumes(t)])]
    /\ \E after \in AfterDec(t) : gpc' = [gpc EXCEPT ![t] = after]
    /\ UNCHANGED <<gq, gsent>>
    /\ GaugeFrame

\* C36: no depth gauge is ever decremented below zero: every step that
\* decrements a gauge finds it at one or more, under every interleaving of
\* the producer's send-then-increment with the consumer's
\* receive-then-decrement.
C36_NoGaugeBelowZero ==
    [][\A st \in GaugeStages :
          (gauges'[st] # gauges[st] /\ gauges'[st] = fetch_sub(gauges[st]))
              => gauges[st] > 0]_vars

\* C36 happens: the forwarder has received and counted out an item that
\* scan_bfs has sent but not yet counted in, and the discover gauge holds
\* the wrapped value.
C36_Witness ==
    /\ gpc["bfs"].pc = "inc"
    /\ gq["discover"] = 0
    /\ gauges["discover"] = USIZE_MOD - 1

GaugeNext ==
    \/ \E t \in GaugeTasks \ {"writer"} : GaugeSend(t)
    \/ \E t \in GaugeTasks \ {"writer"} : GaugeInc(t)
    \/ \E t \in GaugeTasks \ {"bfs"} : GaugeRecv(t)
    \/ \E t \in GaugeTasks \ {"bfs"} : GaugeDec(t)

Init == SupInit /\ GpuInit /\ ~cfg_enabled /\ CatInit /\ ScanOff /\ DerInit /\ PermOff /\ RestOff

InitScan == SupInit /\ GpuInit /\ ~cfg_enabled /\ CatInit /\ ScanInit /\ DerInit /\ PermOff /\ RestOff

InitGpu == SupInit /\ GpuInit /\ CatInit /\ ScanOff /\ DerInit /\ PermOff /\ RestOff

InitAdmin == SupInit /\ GpuInit /\ ~cfg_enabled /\ CatPersisted /\ ScanOff /\ DerInit /\ PermOff /\ RestOff

SupSpec == Init /\ [][SupNext]_vars

CatSpec == Init /\ [][CatNext]_vars

CommitSpec == Init /\ [][CommitNext]_vars

ScanSpec == InitScan /\ [][ScanNext]_vars

GpuSpec == InitGpu /\ [][GpuNext]_vars

AdminSpec == InitAdmin /\ [][AdminNext]_vars

ThumbSpec == Init /\ [][ThumbNext]_vars

RemoveSpec == InitRemove /\ [][RemoveNext]_vars

PermSpec == InitPerm /\ [][PermNext]_vars

RangeSpec == InitRange /\ [][RangeNext]_vars

AlbumSpec == InitAlbum /\ [][AlbumNext]_vars

InitTranscode == SupInit /\ GpuInit /\ CatInit /\ ScanOff /\ ThumbOff /\ VideoInit /\ PermOff /\ RestOff

TranscodeSpec == InitTranscode /\ [][TranscodeNext]_vars

CancelSpec == InitCancel /\ [][CancelNext]_vars

RequeueSpec == InitRequeue /\ [][RequeueNext]_vars

FlushSpec == Init /\ [][FlushNext]_vars /\ WriterRuns

ShareSpec == InitShare /\ [][PermNext]_vars

DrainSpec == Init /\ [][CommitNext]_vars /\ ConsumersRun

GaugeSpec == Init /\ [][GaugeNext]_vars

Spec == SupSpec
====
